---- MODULE Spec2Model ----
(***************************************************************************)
(* Model of the lobby server's RESTful API handler                         *)
(* (server/lobby/src/ApiHandler.cpp): the session registry, the            *)
(* challenge/response authentication and the command dispatch of           *)
(* ApiHandler::handlePost, executed by several web-server threads at once. *)
(*                                                                         *)
(* Every thread runs handlePost for one request at a time.  The steps of a *)
(* request are the places where another thread can be observed to          *)
(* interleave: the registry lookup runs under mSessionLock, Authenticate   *)
(* and the authorization test run under NO lock, the handler body runs     *)
(* under the session's requestLock.  A handler body is one step, except    *)
(* Auth_Token, whose stores to the session are read by the unlocked        *)
(* Authenticate of other threads: it stores the username (line 205) and    *)
(* the challenge (line 206) in two steps.  Reads and writes of one field   *)
(* are taken to be atomic.                                                 *)
(*                                                                         *)
(* Strings are modelled by small sets of strings; a challenge string made  *)
(* by Crypto::GenerateRandom is modelled by a positive number (0 is the    *)
(* empty string), a null shared_ptr by 0.                                  *)
(***************************************************************************)
EXTENDS Integers, Sequences, FiniteSets, TLC

\* ------------------------------------------------------------------ bounds
\* Number of challenges/salts Crypto::GenerateRandom may hand out in a run.
MaxNonce == 3
\* Number of requests the web server receives in a run.
MaxRequests == 3

\* ------------------------------------------------------------- vocabulary
\* The web-server worker threads calling handlePost concurrently.  They are
\* interchangeable: a request is handed to the first thread that is free.
Threads == {"t1", "t2"}
NoThread == "none"
Before(u, t) == u = "t1" /\ t = "t2"

\* Usernames as they arrive on the wire, and the registry keys they fold to.
RawNames == {"Alice", "bob", "carol"}
Keys == {"alice", "bob", "carol", "dave"}

\* The commands of mParsers the model covers, and one unregistered command.
GetChallenge == "/auth/get_challenge"
GetCP == "/account/get_cp"
DeleteAccount == "/admin/delete_account"
UpdateAccount == "/admin/update_account"
PostItems == "/admin/post_items"
DeletePromo == "/admin/delete_promo"
KickPlayer == "/admin/kick_player"
ChangePassword == "/account/change_password"
Register == "/account/register"
WebGameStart == "/webgame/start"
WebGameUpdate == "/webgame/update"
WebGameMethods == {WebGameStart, WebGameUpdate}
Unknown == "/account/nope"
AdminMethods ==
  {DeleteAccount, UpdateAccount, PostItems, DeletePromo, KickPlayer}
Methods ==
  {GetChallenge, GetCP, ChangePassword, Register, Unknown} \cup AdminMethods
  \cup WebGameMethods
Registered ==
  {GetChallenge, GetCP, ChangePassword, Register} \cup AdminMethods
  \cup WebGameMethods

\* libcomp::String::ToLower on the names of the model.
ToLower(s) == IF s = "Alice" THEN "alice" ELSE s

\* method.Left(strlen("/admin/")) == "/admin/"
IsAdminMethod(m) == m \in AdminMethods

\* Commands handlePost lets through without Authenticate.
IsBootstrap(m) == m = GetChallenge \/ m = Register

\* libcomp::Crypto::HashPassword(password, salt-or-challenge): a keyed hash,
\* modelled as an injective pairing (no collisions).
HashPassword(p, c) == <<p, c>>

\* The answer field of a request that carries none.
NoAnswer == <<"", 0>>

\* ------------------------------------------------------------------ state
VARIABLES
  accounts,      \* the Account objects: 1..Len, each with its database presence
                 \* (inDb) and the CP and password hash its database row
                 \* holds (dbCP, dbPassword)
  apiAdminLvl,   \* SVR_CONST.API_ADMIN_LVL_*: the configured level per command
  mSessions,     \* ApiHandler::mSessions: key -> session object (0 = no entry)
  sessions,      \* the ApiSession objects ever made: username, challenge, account
  requestLock,   \* per ApiSession: the thread holding *session->requestLock
  mSessionLock,  \* the thread holding ApiHandler::mSessionLock
  nextNonce,     \* the next string Crypto::GenerateRandom returns
  crashed,       \* the process dereferenced a null session->account
  pc,            \* per thread: its position in handlePost
  req,           \* per thread: the request being served
  lcl,           \* per thread: handlePost's locals (session, iterator, ...)
  response,      \* per thread: the JsonBox response object
  status,        \* per thread: the HTTP status written by mg_printf (0 = none)
  received,      \* number of requests received so far
  hist,          \* per thread: history of the request (for the properties)
  accepted,      \* per session: challenges an answer was accepted against
  challenged,    \* per session: Auth_Token has stored a challenge on it
  postItems,     \* per account: number of its PostItem records in the database
  hl,            \* per thread: the locals of the handler body it is in
  promos,        \* the Promo rows ever in the database: code, presence
  webGame,       \* a web-game session with the coins of its character
  enemy,         \* an EnemyState of the channel: mTalkPoints, mLock, the calls
  client         \* a channel client connection: its state, account and clock

vars == <<accounts, apiAdminLvl, mSessions, sessions, requestLock, mSessionLock,
          nextNonce, crashed, pc, req, lcl, response, status, received, hist,
          accepted, challenged, postItems, hl, promos, webGame, enemy, client>>

\* The database and the configuration, with the history of the sessions.
store == <<accounts, apiAdminLvl, challenged, postItems, hl, promos, webGame,
           enemy, client>>

\* A database without Promo rows; no web-game session.
NoPromos == <<>>
NoWebGame == [gameSession |-> FALSE]

\* No enemy on the channel and no client connected to it.
NoEnemy == [spawned |-> FALSE]
NoClient == [connected |-> FALSE]

\* ApiSession as constructed (std::make_shared<ApiSession>()).
NewSession == [username |-> "", challenge |-> 0, account |-> 0]

\* ApiSession::Reset().
ResetSession_KeepsChallenge(s) ==
  [username |-> "", challenge |-> sessions[s].challenge, account |-> 0]
ResetSession(s) == [username |-> "", challenge |-> 0, account |-> 0]

\* JsonBox::Object response as constructed by handlePost.
EmptyResponse == [challenge |-> 0, salt |-> "", error |-> "", cp |-> -1,
                  required |-> -1, actual |-> -1, count |-> -1]

NoRequest == [method |-> "", username |-> "", session_username |-> "",
              has_challenge |-> FALSE, challenge |-> NoAnswer]

NoLocals == [session |-> 0, found |-> 0, validChallenge |-> NoAnswer,
             authenticated |-> FALSE, ran |-> FALSE]

NoHist == [start |-> NewSession, solo |-> FALSE, rechallenged |-> FALSE]

\* The locals of a handler body: the account it loaded, the CP it expects,
\* whether its changeset was committed, the world login it found for the
\* account and whether it sent a relay frame.
NoHandlerLocals ==
  [account |-> 0, expected |-> 0, committed |-> FALSE, login |-> "",
   sent |-> FALSE, promoList |-> <<>>, promoCount |-> 0, closed |-> FALSE,
   kickLevel |-> 0]

\* A request with the fields the account and economy handlers read: method m
\* on the session of su, naming the account u.
AdminRequest(m, su, u) ==
  [method |-> m, username |-> u, session_username |-> su,
   has_challenge |-> FALSE, challenge |-> NoAnswer,
   has_cp |-> FALSE, cp |-> 0, products |-> <<>>,
   has_user_level |-> FALSE, user_level |-> 0,
   has_password |-> FALSE, password |-> "",
   has_enabled |-> FALSE, enabled |-> FALSE]

\* The accounts of the database at start-up (an administrator, a player and
\* a disabled account); the administrators' minimum level.
AdminLevels == {1000}
InitialAccounts ==
  << [username |-> "alice", password |-> "pwA", salt |-> "saltA",
      enabled |-> TRUE, userLevel |-> 1000, cp |-> 5, dbCP |-> 5,
      dbPassword |-> "pwA", inDb |-> TRUE, email |-> "a@x.com"],
     [username |-> "bob", password |-> "pwB", salt |-> "saltB",
      enabled |-> TRUE, userLevel |-> 0, cp |-> 7, dbCP |-> 7,
      dbPassword |-> "pwB", inDb |-> TRUE, email |-> "b@x.com"],
     [username |-> "carol", password |-> "pwC", salt |-> "saltC",
      enabled |-> FALSE, userLevel |-> 0, cp |-> 0, dbCP |-> 0,
      dbPassword |-> "pwC", inDb |-> TRUE, email |-> "c@x.com"] >>

\* objects::Account::LoadAccountByUsername(db, username): the account object
\* of the row with that username, null (0) when the database has none.
LoadAccountByUsername(u) ==
  IF \E i \in 1..Len(accounts) : accounts[i].inDb /\ accounts[i].username = u
  THEN CHOOSE i \in 1..Len(accounts) : accounts[i].inDb /\ accounts[i].username = u
  ELSE 0

\* The username the registry is keyed by for a request (handlePost).
SessionKey(r) ==
  IF IsBootstrap(r.method) THEN ToLower(r.username)
  ELSE ToLower(r.session_username)

Init ==
  /\ accounts = InitialAccounts
  /\ apiAdminLvl \in [AdminMethods -> AdminLevels]
  /\ postItems = [i \in 1..Len(InitialAccounts) |-> 0]
  /\ hl = [t \in Threads |-> NoHandlerLocals]
  /\ promos = NoPromos
  /\ webGame = NoWebGame
  /\ enemy = NoEnemy
  /\ client = NoClient
  /\ mSessions = [k \in Keys |-> 0]
  /\ sessions = <<>>
  /\ requestLock = <<>>
  /\ mSessionLock = NoThread
  /\ nextNonce = 1
  /\ crashed = FALSE
  /\ pc = [t \in Threads |-> "idle"]
  /\ req = [t \in Threads |-> NoRequest]
  /\ lcl = [t \in Threads |-> NoLocals]
  /\ response = [t \in Threads |-> EmptyResponse]
  /\ status = [t \in Threads |-> 0]
  /\ received = 0
  /\ hist = [t \in Threads |-> NoHist]
  /\ accepted = <<>>
  /\ challenged = <<>>

\* ------------------------------------------------------ requests (inputs)
\* The password hash the owner of an account answers with, and a wrong one.
ClientPassword(k) == IF k = "alice" THEN "pwA" ELSE "pwB"
Clients == {"alice", "bob"}
WrongPassword == "pwX"

\* Challenge answers a client sends for the session of username k: none, the
\* hash of the account's password hash with the empty challenge of a cleared
\* session or with a challenge that has been handed out (the outstanding one
\* or a stale one), or the hash of a wrong password.
Answers(k) ==
  {[has |-> FALSE, val |-> NoAnswer]} \cup
  {[has |-> TRUE, val |-> HashPassword(ClientPassword(k), c)] :
     c \in 0..(nextNonce - 1)} \cup
  {[has |-> TRUE, val |-> HashPassword(WrongPassword, nextNonce - 1)]}

\* Who asks to delete whom (session_username, username).
DeleteTargets == {<<"alice", "alice">>, <<"bob", "alice">>}

\* The requests handlePost is given: the fields it and the handlers read.
Requests ==
  {[method |-> GetChallenge, username |-> u, session_username |-> "",
    has_challenge |-> FALSE, challenge |-> NoAnswer] : u \in RawNames}
  \cup
  {[method |-> GetCP, username |-> "", session_username |-> "",
    has_challenge |-> FALSE, challenge |-> NoAnswer]}
  \cup
  UNION {{[method |-> GetCP, username |-> "", session_username |-> su,
           has_challenge |-> a.has, challenge |-> a.val] :
            a \in Answers(su)} : su \in Clients}
  \cup
  {[method |-> Unknown, username |-> "", session_username |-> "alice",
    has_challenge |-> a.has, challenge |-> a.val] : a \in Answers("alice")}
  \cup
  UNION {{[method |-> DeleteAccount, username |-> d[2],
           session_username |-> d[1],
           has_challenge |-> a.has, challenge |-> a.val] :
            a \in Answers(d[1])} : d \in DeleteTargets}

\* ------------------------------------------------------------ small helpers
SetPc(t, p) == pc' = [pc EXCEPT ![t] = p]

\* Thread t is at position p of handlePost, in a process that still runs.
At(t, p) == ~crashed /\ pc[t] = p

\* mg_printf of a status line with no body, then "return true".
ReplyStatus(t, code) ==
  /\ status' = [status EXCEPT ![t] = code]
  /\ SetPc(t, "done")

\* The thread has its session and has not answered yet.
InFlight(t) ==
  pc[t] \in {"authEntry", "authVerify", "authRotate", "authorize", "authLevel",
             "lockRequest", "handler", "storeChallenge", "postBuild",
             "postApply", "postRelay", "updateApply", "registerInsert",
             "promoDelete", "gameMake"}

\* ---------------------------------------------------------- handlePost
\* std::lock_guard<std::mutex> guard(mSessionLock) can be entered.
SessionLockFree_Ignored == TRUE
SessionLockFree == mSessionLock = NoThread

\* Lines 1977-2018: read the request, derive session_username; without one
\* there is no session and the request is answered 401, otherwise take the
\* registry mutex (a request waiting for it is one that has not arrived yet),
\* then mSessions.find(session_username).
Receive(t, r) ==
  /\ ~crashed
  /\ pc[t] \in {"idle", "done"}
  /\ \A u \in Threads : Before(u, t) => pc[u] \notin {"idle", "done"}
  /\ received < MaxRequests
  /\ received' = received + 1
  /\ req' = [req EXCEPT ![t] = r]
  /\ response' = [response EXCEPT ![t] = EmptyResponse]
  /\ hist' = [hist EXCEPT ![t] = NoHist]
  /\ IF SessionKey(r) = ""
     THEN /\ ReplyStatus(t, 401)
          /\ lcl' = [lcl EXCEPT ![t] = NoLocals]
          /\ UNCHANGED mSessionLock
     ELSE /\ SessionLockFree
          /\ mSessionLock' = t
          /\ lcl' = [lcl EXCEPT ![t] = [NoLocals EXCEPT
                                          !.found = mSessions[SessionKey(r)]]]
          /\ SetPc(t, "assign")
          /\ status' = [status EXCEPT ![t] = 0]
  /\ UNCHANGED <<store, mSessions, sessions, requestLock, nextNonce, crashed,
                 accepted>>

\* Lines 2081-2088: mParsers.find(method).
IsRegistered(m) == m \in Registered

\* Lines 2040-2091 for an authorized request: an unknown command is answered
\* 404, a registered one goes on to take the session's requestLock.
Dispatch(t) ==
  IF IsRegistered(req[t].method)
  THEN SetPc(t, "lockRequest") /\ UNCHANGED status
  ELSE ReplyStatus(t, 404)

\* The holder of mSessionLock once the guarded block (2015-2028) is left.
HolderAfterLookup_KeptLocked(t) == t
HolderAfterLookup(t) == NoThread

\* History of a request, taken when it gets its session: what the session
\* held, and whether another request of the same session is in flight.
StartHist(t, s, old) ==
  [u \in Threads |->
     IF u = t
     THEN [start |-> old,
           solo |-> ~\E o \in Threads \ {t} : InFlight(o) /\ lcl[o].session = s,
           rechallenged |-> FALSE]
     ELSE IF InFlight(u) /\ lcl[u].session = s
          THEN [hist[u] EXCEPT !.solo = FALSE]
          ELSE hist[u]]

\* Lines 2020-2028: use the session found or make and insert a new one, leave
\* the guarded block; then line 2030: the bootstrap command needs no
\* authentication.
AssignSession(t) ==
  /\ At(t, "assign")
  /\ LET k == SessionKey(req[t])
         isNew == lcl[t].found = 0
         s == IF isNew THEN Len(sessions) + 1 ELSE lcl[t].found
     IN /\ sessions' = IF isNew THEN Append(sessions, NewSession) ELSE sessions
        /\ requestLock' = IF isNew THEN Append(requestLock, NoThread)
                          ELSE requestLock
        /\ accepted' = IF isNew THEN Append(accepted, {}) ELSE accepted
        /\ challenged' = IF isNew THEN Append(challenged, FALSE)
                         ELSE challenged
        /\ mSessions' = IF isNew THEN [mSessions EXCEPT ![k] = s] ELSE mSessions
        /\ lcl' = [lcl EXCEPT ![t].session = s]
        /\ hist' = StartHist(t, s, IF isNew THEN NewSession ELSE sessions[s])
  /\ mSessionLock' = HolderAfterLookup(t)
  /\ IF IsBootstrap(req[t].method)
     THEN Dispatch(t)
     ELSE SetPc(t, "authEntry") /\ UNCHANGED status
  /\ UNCHANGED <<accounts, apiAdminLvl, promos, webGame, postItems, hl,
                 nextNonce, crashed, req, response, received, enemy, client>>

\* ------------------------------------------------- ApiHandler::Authenticate
\* Authenticate returned false (or session->account is null at line 2031):
\* authorized stays false and lines 2040-2053 answer 401.
Unauthorized(t) == ReplyStatus(t, 401)

\* Line 1830: "Check first if a challenge was ever requested."
ChallengeRequested(s) ==
  ~(sessions[s].username = "" \/ sessions[s].account = 0)

AuthEntry(t) ==
  /\ At(t, "authEntry")
  /\ IF ChallengeRequested(lcl[t].session)
     THEN SetPc(t, "authVerify") /\ UNCHANGED status
     ELSE Unauthorized(t)
  /\ UNCHANGED <<store, mSessions, sessions, requestLock, mSessionLock,
                 nextNonce, crashed, req, lcl, response, received, hist,
                 accepted>>

\* Lines 1846-1847: the answer the server expects.
ValidChallenge_Plain(s) ==
  HashPassword(accounts[sessions[s].account].salt, sessions[s].challenge)
ValidChallenge(s) ==
  HashPassword(accounts[sessions[s].account].password, sessions[s].challenge)

\* Line 1850: the reply equals the expected answer.
AnswerMatches_Always(t, s) == TRUE
AnswerMatches(t, s) == req[t].challenge = ValidChallenge(s)

\* Reading through a null session->account: the process dies, or the read
\* yields an unspecified value.
NullDeref == {"crash", "garbage"}

Crash(t) ==
  /\ crashed' = TRUE
  /\ SetPc(t, "crashed")

\* Lines 1835-1854: the challenge reply is looked up and compared; a missing
\* or wrong reply resets the session.
AuthVerify(t) ==
  /\ At(t, "authVerify")
  /\ LET s == lcl[t].session
         reset == /\ sessions' = [sessions EXCEPT ![s] = ResetSession(s)]
                  /\ Unauthorized(t)
                  /\ UNCHANGED <<lcl, accepted, crashed>>
     IN IF ~req[t].has_challenge
        THEN reset
        ELSE IF sessions[s].account = 0
        THEN \E o \in NullDeref :
               IF o = "crash"
               THEN Crash(t) /\ UNCHANGED <<sessions, lcl, accepted, status>>
               ELSE reset
        ELSE IF ~AnswerMatches(t, s)
        THEN reset
        ELSE /\ lcl' = [lcl EXCEPT ![t].validChallenge = ValidChallenge(s)]
             /\ accepted' = [accepted EXCEPT
                               ![s] = @ \cup {sessions[s].challenge}]
             /\ SetPc(t, "authRotate")
             /\ UNCHANGED <<sessions, status, crashed>>
  /\ UNCHANGED <<store, mSessions, requestLock, mSessionLock, nextNonce, req,
                 response, received, hist>>

\* libcomp::Crypto::GenerateRandom(10): a string not handed out before.
GenerateRandom == nextNonce

\* Line 1858: the challenge the session holds after a successful check.
RotatedChallenge(s, fresh) == fresh

\* Lines 1856-1862: a new challenge replaces the old one and is put into the
\* response.
AuthRotate(t) ==
  /\ At(t, "authRotate")
  /\ nextNonce <= MaxNonce
  /\ LET s == lcl[t].session
         c == RotatedChallenge(s, GenerateRandom)
     IN /\ sessions' = [sessions EXCEPT ![s].challenge = c]
        /\ response' = [response EXCEPT ![t].challenge = c]
  /\ nextNonce' = nextNonce + 1
  /\ lcl' = [lcl EXCEPT ![t].authenticated = TRUE]
  /\ SetPc(t, "authorize")
  /\ UNCHANGED <<store, mSessions, requestLock, mSessionLock, crashed, req,
                 status, received, hist, accepted>>

\* Line 2031: "Authenticate(obj, response, session) && session->account";
\* line 2032: commands outside /admin/ are authorized at once.
Authorize(t) ==
  /\ At(t, "authorize")
  /\ IF sessions[lcl[t].session].account = 0
     THEN Unauthorized(t)
     ELSE IF IsAdminMethod(req[t].method)
          THEN SetPc(t, "authLevel") /\ UNCHANGED status
          ELSE Dispatch(t)
  /\ UNCHANGED <<store, mSessions, sessions, requestLock, mSessionLock,
                 nextNonce, crashed, req, lcl, response, received, hist,
                 accepted>>

\* Line 2033: the user level every /admin/ command needs in handlePost.
AdminGate(level) == level >= 1000

\* Line 2033: session->account->GetUserLevel() >= 1000.
AuthLevel(t) ==
  /\ At(t, "authLevel")
  /\ LET a == sessions[lcl[t].session].account
         decide(level) ==
           IF AdminGate(level) THEN Dispatch(t) ELSE Unauthorized(t)
     IN IF a = 0
        THEN \E o \in NullDeref :
               IF o = "crash"
               THEN Crash(t) /\ UNCHANGED status
               ELSE (\E level \in {0, 1000} : decide(level))
                    /\ UNCHANGED crashed
        ELSE decide(accounts[a].userLevel) /\ UNCHANGED crashed
  /\ UNCHANGED <<store, mSessions, sessions, requestLock, mSessionLock,
                 nextNonce, req, lcl, response, received, hist, accepted>>

\* std::lock_guard<std::mutex> guard(*session->requestLock) can be entered.
RequestLockFree_Ignored(s) == TRUE
RequestLockFree(s) == requestLock[s] = NoThread

\* Line 2091: "Lock the mutex while processing the request".
LockRequest(t) ==
  /\ At(t, "lockRequest")
  /\ RequestLockFree(lcl[t].session)
  /\ requestLock' = [requestLock EXCEPT ![lcl[t].session] = t]
  /\ lcl' = [lcl EXCEPT ![t].ran = TRUE]
  /\ SetPc(t, "handler")
  /\ UNCHANGED <<store, mSessions, sessions, mSessionLock, nextNonce, crashed,
                 req, response, status, received, hist, accepted>>

\* ------------------------------------------------------------- the handlers
\* Lines 2093-2112: the handler returned; the guard releases requestLock and
\* the response is written with 200, or 400 is answered when it returned false.
HandlerReturns(t, ok) ==
  /\ requestLock' = [requestLock EXCEPT ![lcl[t].session] = NoThread]
  /\ ReplyStatus(t, IF ok THEN 200 ELSE 400)

\* A new challenge was stored on session s: requests of s in flight see it.
NoteChallenge(t, s) ==
  [u \in Threads |->
     IF u # t /\ InFlight(u) /\ lcl[u].session = s
     THEN [hist[u] EXCEPT !.rechallenged = TRUE]
     ELSE hist[u]]

\* Line 192: "We must have a valid account for this to work."
ValidAccount_EnabledIgnored(a) == a # 0
ValidAccount(a) == a # 0 /\ accounts[a].enabled

\* Line 205: the username Auth_Token stores on the session.
StoredUsername_AsSent(t) == req[t].username
StoredUsername(t) == ToLower(req[t].username)

\* ApiHandler::Auth_Token (/auth/get_challenge), lines 162-205: the account
\* is looked up; an absent or disabled one resets the session and fails,
\* otherwise the account and the lowercased username are stored.
AuthToken(t) ==
  /\ At(t, "handler")
  /\ req[t].method = GetChallenge
  /\ LET s == lcl[t].session
         a == LoadAccountByUsername(ToLower(req[t].username))
     IN IF req[t].username = "" \/ ~ValidAccount(a)
        THEN /\ sessions' = [sessions EXCEPT ![s] = ResetSession(s)]
             /\ HandlerReturns(t, FALSE)
             /\ UNCHANGED hist
        ELSE /\ sessions' = [sessions EXCEPT ![s].account = a,
                                             ![s].username = StoredUsername(t)]
             /\ hist' = NoteChallenge(t, s)
             /\ SetPc(t, "storeChallenge")
             /\ UNCHANGED <<requestLock, status>>
  /\ UNCHANGED <<store, mSessions, mSessionLock, nextNonce, crashed, req, lcl,
                 response, received, accepted>>

\* ApiHandler::Auth_Token, lines 206-211: the challenge (drawn at line 202) is
\* stored and put into the response with session->account->GetSalt().
AuthTokenStore(t) ==
  /\ At(t, "storeChallenge")
  /\ nextNonce <= MaxNonce
  /\ LET s == lcl[t].session
         a == sessions[s].account
         reply(salt) ==
           /\ response' = [response EXCEPT ![t].challenge = GenerateRandom,
                                           ![t].salt = salt]
           /\ HandlerReturns(t, TRUE)
     IN /\ sessions' = [sessions EXCEPT ![s].challenge = GenerateRandom]
        /\ challenged' = [challenged EXCEPT ![s] = TRUE]
        /\ nextNonce' = nextNonce + 1
        /\ IF a = 0
           THEN \E o \in NullDeref :
                  IF o = "crash"
                  THEN Crash(t) /\ UNCHANGED <<response, requestLock, status>>
                  ELSE reply("garbage") /\ UNCHANGED crashed
           ELSE reply(accounts[a].salt) /\ UNCHANGED crashed
  /\ UNCHANGED <<accounts, apiAdminLvl, promos, webGame, postItems, hl,
                 mSessions, mSessionLock, req, lcl, received, hist, accepted,
                 enemy, client>>

\* ApiHandler::Account_GetCP (/account/get_cp), lines 214-230.
AccountGetCP(t) ==
  /\ At(t, "handler")
  /\ req[t].method = GetCP
  /\ LET a == LoadAccountByUsername(sessions[lcl[t].session].username)
     IN IF a = 0
        THEN HandlerReturns(t, FALSE) /\ UNCHANGED response
        ELSE /\ response' = [response EXCEPT ![t].cp = accounts[a].cp]
             /\ HandlerReturns(t, TRUE)
  /\ UNCHANGED <<store, mSessions, sessions, mSessionLock, nextNonce, crashed,
                 req, lcl, received, hist, accepted>>

\* ApiHandler::HaveUserLevel, lines 2195-2212.
HaveUserLevel_Always(s, requiredLevel) == TRUE
HaveUserLevel(s, requiredLevel) ==
  LET account == sessions[s].account
      currentLevel == IF account # 0 THEN accounts[account].userLevel ELSE 0
  IN ~(currentLevel < requiredLevel)

\* Lines 2201-2206: the text HaveUserLevel puts into response["error"]; its
\* two arguments are kept beside it in the response (required, actual).
LevelError ==
  "Requested command requires a user level of at least %1. Session level is only %2."

\* The level HaveUserLevel reads for a session (0 without an account).
SessionLevel(s) ==
  IF sessions[s].account # 0 THEN accounts[sessions[s].account].userLevel ELSE 0

\* A handler body ends after setting response["error"] (it returns true).
HandlerSays(t, text) ==
  /\ response' = [response EXCEPT ![t].error = text]
  /\ HandlerReturns(t, TRUE)

\* Lines 2199-2209 and the "return true" of the handler: HaveUserLevel failed.
LevelRefused(t, requiredLevel) ==
  /\ response' = [response EXCEPT ![t].error = LevelError,
                                  ![t].required = requiredLevel,
                                  ![t].actual = SessionLevel(lcl[t].session)]
  /\ HandlerReturns(t, TRUE)

\* Lines 619-622: the session is cleared when it deleted its own account.
SessionAfterDelete_Kept(s, username) == sessions
SessionAfterDelete(s, username) ==
  IF sessions[s].username = username
  THEN [sessions EXCEPT ![s].username = "", ![s].account = 0]
  ELSE sessions

\* ApiHandler::Admin_DeleteAccount (/admin/delete_account), lines 591-627.
\* account->Delete(db) may fail in the database (didDelete).
AdminDeleteAccount(t) ==
  /\ At(t, "handler")
  /\ req[t].method = DeleteAccount
  /\ LET s == lcl[t].session
         username == ToLower(req[t].username)
         a == LoadAccountByUsername(username)
     IN IF ~HaveUserLevel(s, apiAdminLvl[DeleteAccount])
        THEN /\ LevelRefused(t, apiAdminLvl[DeleteAccount])
             /\ UNCHANGED <<accounts, sessions>>
        ELSE IF req[t].username = "" \/ a = 0
        THEN /\ HandlerReturns(t, FALSE)
             /\ UNCHANGED <<accounts, sessions, response>>
        ELSE \E didDelete \in BOOLEAN :
               /\ accounts' = [accounts EXCEPT ![a].inDb = ~didDelete]
               /\ sessions' = SessionAfterDelete(s, username)
               /\ HandlerReturns(t, didDelete)
               /\ UNCHANGED response
  /\ UNCHANGED <<apiAdminLvl, promos, webGame, challenged, postItems, hl,
                 mSessions, mSessionLock, nextNonce, crashed, req, lcl,
                 received, hist, accepted, enemy, client>>

\* ------------------------------------------------------ economy handlers
\* The width of the unsigned CP field of objects::Account, scaled down from
\* 2^32: a stored value is read through the field modulo this.
CpModulus == 16

\* account->GetCP(): the uint32_t field of the (shared) Account object.
AccountCP(a) == accounts[a].cp % CpModulus

\* The CP column of the account's row in the database.
StoredCP(a) == accounts[a].dbCP

\* mDefinitionManager->GetShopProductData(productID) finds the product.
ShopProducts == {1, 2}

\* MAX_POST_ITEM_COUNT, scaled down.
MAX_POST_ITEM_COUNT == 3

\* ApiHandler::GetAccount, lines 2119-2143: the account named by the request,
\* or the error it leaves in the response.
GetAccountError(r) ==
  IF r.username = "" THEN "Username not found."
  ELSE IF LoadAccountByUsername(ToLower(r.username)) = 0
       THEN "Account not found."
       ELSE ""

\* Lines 1075-1081: request["cp"], 0 when the field is absent.
CpCost(r) == IF r.has_cp THEN r.cp ELSE 0

\* Lines 1083-1117: the request is refused before anything is read from the
\* post items: the text of the refusal, "" when there is none.
PostItemsRefusal(r, a) ==
  IF CpCost(r) < 0 THEN "Cannot add CP via post purchase."
  ELSE IF CpCost(r) > 0 /\ CpCost(r) > AccountCP(a) THEN "Not enough CP."
  ELSE IF r.products = <<>> THEN "No product specified."
  ELSE IF \E i \in 1..Len(r.products) : r.products[i] \notin ShopProducts
       THEN "Invalid product."
       ELSE ""

\* ApiHandler::Admin_PostItems (/admin/post_items), lines 1060-1117: the level,
\* the target account, the cost against the balance, the products.
AdminPostItems(t) ==
  /\ At(t, "handler")
  /\ req[t].method = PostItems
  /\ LET s == lcl[t].session
         a == LoadAccountByUsername(ToLower(req[t].username))
     IN IF ~HaveUserLevel(s, apiAdminLvl[PostItems])
        THEN LevelRefused(t, apiAdminLvl[PostItems]) /\ UNCHANGED hl
        ELSE IF GetAccountError(req[t]) # ""
        THEN HandlerSays(t, GetAccountError(req[t])) /\ UNCHANGED hl
        ELSE IF PostItemsRefusal(req[t], a) # ""
        THEN HandlerSays(t, PostItemsRefusal(req[t], a)) /\ UNCHANGED hl
        ELSE /\ hl' = [hl EXCEPT ![t].account = a]
             /\ SetPc(t, "postBuild")
             /\ UNCHANGED <<response, requestLock, status>>
  /\ UNCHANGED <<accounts, apiAdminLvl, promos, webGame, challenged, postItems,
                 mSessions, sessions, mSessionLock, nextNonce, crashed, req,
                 lcl, received, hist, accepted, enemy, client>>

\* Line 1133: the value the explicit update expects the CP to hold.
ExpectedCP(a) == AccountCP(a)

\* Lines 1119-1144: the post items of the account are counted, then the
\* changeset is built: SubtractFrom("CP", cpCost, account->GetCP()) when there
\* is a cost, and one insertion per product.
AdminPostItemsBuild(t) ==
  /\ At(t, "postBuild")
  /\ LET a == hl[t].account
     IN IF postItems[a] + Len(req[t].products) >= MAX_POST_ITEM_COUNT
        THEN /\ HandlerSays(t, "Maximum post item count exceeded.")
             /\ hl' = [hl EXCEPT ![t] = NoHandlerLocals]
        ELSE /\ hl' = [hl EXCEPT ![t].expected = ExpectedCP(a)]
             /\ SetPc(t, "postApply")
             /\ UNCHANGED <<response, requestLock, status>>
  /\ UNCHANGED <<accounts, apiAdminLvl, promos, webGame, challenged, postItems,
                 mSessions, sessions, mSessionLock, nextNonce, crashed, req,
                 lcl, received, hist, accepted, enemy, client>>

\* libcomp::Database::ProcessChangeSet on the changeset of Admin_PostItems:
\* the explicit update applies when the stored CP equals the expected value,
\* and the batch is written as a unit unless a write fails.
ChangeSetApplies(a, cost, expected, writesOk) ==
  /\ writesOk
  /\ cost # 0 => (accounts[a].inDb /\ StoredCP(a) = expected)

\* Lines 1146-1150 and 1177-1178: what the handler answers.
PostItemsAnswer_AlwaysSuccess(applied) == "Success"
PostItemsAnswer(applied) == IF applied THEN "Success" ELSE "Purchase failed."

\* Lines 1137-1144: the post items go into the changeset (opChangeset->Insert),
\* so none is inserted when the changeset is refused.
InsertedWhenRefused_Direct(n) == n
InsertedWhenRefused(n) == 0

\* Line 1146: the handler goes on when ProcessChangeSet returned true.
GoesOn_Always(applied) == TRUE
GoesOn(applied) == applied

\* Lines 1146-1150: the changeset is processed; a refused one is answered
\* "Purchase failed.", a committed one lets the handler go on to the relay.
AdminPostItemsApply(t) ==
  /\ At(t, "postApply")
  /\ LET a == hl[t].account
         cost == CpCost(req[t])
         n == Len(req[t].products)
     IN \E writesOk \in BOOLEAN :
          LET applied == ChangeSetApplies(a, cost, hl[t].expected, writesOk)
              newCP == hl[t].expected - cost
          IN /\ accounts' = IF applied /\ cost # 0
                            THEN [accounts EXCEPT ![a].cp = newCP,
                                                  ![a].dbCP = newCP]
                            ELSE accounts
             /\ postItems' = [postItems EXCEPT
                                ![a] = @ + (IF applied THEN n
                                            ELSE InsertedWhenRefused(n))]
             /\ IF GoesOn(applied)
                THEN /\ hl' = [hl EXCEPT ![t].committed = applied]
                     /\ SetPc(t, "postRelay")
                     /\ UNCHANGED <<response, requestLock, status>>
                ELSE /\ HandlerSays(t, PostItemsAnswer(applied))
                     /\ hl' = [hl EXCEPT ![t] = NoHandlerLocals]
  /\ UNCHANGED <<apiAdminLvl, promos, webGame, challenged, mSessions, sessions,
                 mSessionLock, nextNonce, crashed, req, lcl, received, hist,
                 accepted, enemy, client>>

\* Lines 1152-1154: what mAccountManager->GetUserLogin finds for the account:
\* no login, a login with no character login, a character login in no world
\* (GetWorldID() < 0), a world without a connection, a connected world.
WorldLogins == {"none", "noCharacter", "noWorld", "noConnection", "connected"}

\* Lines 1154 and 1168-1172: the relay packet is sent when the account is
\* logged into a world that has a connection.
RelaySent_Always(login) == TRUE
RelaySent(login) == login = "connected"

\* Lines 1152-1180: the CP update is relayed to the world the account is
\* logged into, if any; then the handler answers "Success" with the CP of
\* the account object.
AdminPostItemsRelay(t) ==
  /\ At(t, "postRelay")
  /\ LET a == hl[t].account
     IN \E login \in WorldLogins :
          /\ hl' = [hl EXCEPT ![t] = [NoHandlerLocals EXCEPT
                                        !.login = login,
                                        !.sent = RelaySent(login)]]
          /\ response' = [response EXCEPT
                            ![t].error = PostItemsAnswer(TRUE),
                            ![t].cp = AccountCP(a)]
          /\ HandlerReturns(t, TRUE)
  /\ UNCHANGED <<accounts, apiAdminLvl, promos, webGame, challenged, postItems,
                 mSessions, sessions, mSessionLock, nextNonce, crashed, req,
                 lcl, received, hist, accepted, enemy, client>>

\* ------------------------------------------------------ account handlers
\* password.Matches("^[a-zA-Z0-9...]{6,16}$"), lines 648-649 and 288-289: the
\* passwords of the requests are made of allowed characters, so the length
\* decides.
GoodPassword(p) == Len(p) >= 6 /\ Len(p) <= 16

\* Lines 654 and 294: libcomp::Crypto::GenerateRandom(10) for a new salt.
GenerateSalt == "saltN"

\* Lines 657 and 297: HashPassword(password, salt) as stored on the account,
\* a string as the stored hashes of the initial accounts are.
StoredHash(password, salt) == "pw:" \o password \o ":" \o salt

\* ApiHandler::Admin_UpdateAccount (/admin/update_account), lines 629-641: the
\* level, then GetAccount loads the account the request names.
AdminUpdateAccount(t) ==
  /\ At(t, "handler")
  /\ req[t].method = UpdateAccount
  /\ LET s == lcl[t].session
         a == LoadAccountByUsername(ToLower(req[t].username))
     IN IF ~HaveUserLevel(s, apiAdminLvl[UpdateAccount])
        THEN LevelRefused(t, apiAdminLvl[UpdateAccount]) /\ UNCHANGED hl
        ELSE IF GetAccountError(req[t]) # ""
        THEN HandlerSays(t, GetAccountError(req[t])) /\ UNCHANGED hl
        ELSE /\ hl' = [hl EXCEPT ![t].account = a]
             /\ SetPc(t, "updateApply")
             /\ UNCHANGED <<response, requestLock, status>>
  /\ UNCHANGED <<accounts, apiAdminLvl, promos, webGame, challenged, postItems,
                 mSessions, sessions, mSessionLock, nextNonce, crashed, req,
                 lcl, received, hist, accepted, enemy, client>>

\* Lines 643-661: the account object after the "password" field was handled.
WithPassword(r, acc) ==
  IF r.has_password /\ GoodPassword(r.password)
  THEN [acc EXCEPT !.password = StoredHash(r.password, GenerateSalt),
                   !.salt = GenerateSalt]
  ELSE acc

\* Lines 671-683: account->SetCP((uint32_t)cp) for a cp that is not negative.
WithCP(r, acc) ==
  IF r.has_cp /\ ~(0 > r.cp) THEN [acc EXCEPT !.cp = r.cp % CpModulus] ELSE acc

\* Lines 711-725: account->SetUserLevel(user_level) for a level in range.
WithUserLevel(r, acc) ==
  IF r.has_user_level /\ ~(0 > r.user_level \/ 1000 < r.user_level)
  THEN [acc EXCEPT !.userLevel = r.user_level]
  ELSE acc

\* Lines 727-729: account->SetEnabled(enabled).
WithEnabled(r, acc) ==
  IF r.has_enabled THEN [acc EXCEPT !.enabled = r.enabled] ELSE acc

\* Lines 643-725: the first field of the request that is refused ("" when
\* none is), in the order the handler reads them.
UpdateRefusal(r) ==
  IF r.has_password /\ ~GoodPassword(r.password) THEN "Bad password"
  ELSE IF r.has_cp /\ 0 > r.cp THEN "CP must be a positive integer or zero."
  ELSE IF r.has_user_level /\ (0 > r.user_level \/ 1000 < r.user_level)
       THEN "User level must be in the range [0, 1000]."
       ELSE ""

\* Lines 643-725: the account object when the handler stops at a refused
\* field: the fields read before it have been set on the object.
PartlySet(r, acc) ==
  IF r.has_password /\ ~GoodPassword(r.password) THEN acc
  ELSE IF r.has_cp /\ 0 > r.cp THEN WithPassword(r, acc)
  ELSE WithCP(r, WithPassword(r, acc))

\* Lines 643-729: every field of the request set on the account object.
FullySet(r, acc) ==
  WithEnabled(r, WithUserLevel(r, WithCP(r, WithPassword(r, acc))))

\* Line 731: account->Update(db) writes the fields of the object to its row.
Updated(acc, didUpdate) ==
  IF didUpdate
  THEN [acc EXCEPT !.dbCP = acc.cp, !.dbPassword = acc.password]
  ELSE acc

\* Lines 733-736: the session is cleared when it is the account's own.
ClearOwnSession(s, username) ==
  IF sessions[s].username = username
  THEN [sessions EXCEPT ![s].username = "", ![s].account = 0]
  ELSE sessions

\* ApiHandler::Admin_UpdateAccount, lines 643-745: the fields are set on the
\* account object one after the other, account->Update(db) writes the object
\* (didUpdate), and the session of the account itself is cleared.
AdminUpdateAccountApply(t) ==
  /\ At(t, "updateApply")
  /\ LET s == lcl[t].session
         a == hl[t].account
         r == req[t]
     IN IF UpdateRefusal(r) # ""
        THEN /\ accounts' = [accounts EXCEPT ![a] = PartlySet(r, @)]
             /\ HandlerSays(t, UpdateRefusal(r))
             /\ UNCHANGED sessions
        ELSE \E didUpdate \in BOOLEAN :
               /\ accounts' = [accounts EXCEPT
                                ![a] = Updated(FullySet(r, @), didUpdate)]
               /\ sessions' = ClearOwnSession(s, accounts[a].username)
               /\ HandlerSays(t, IF didUpdate THEN "Success"
                                 ELSE "Failed to update account.")
  /\ hl' = [hl EXCEPT ![t] = NoHandlerLocals]
  /\ UNCHANGED <<apiAdminLvl, promos, webGame, challenged, postItems,
                 mSessions, mSessionLock, nextNonce, crashed, req, lcl,
                 received, hist, accepted, enemy, client>>

\* Lines 312-314: "Clear the session and make the user re-authenticate."
SessionAfterPasswordChange(s) ==
  [sessions EXCEPT ![s].username = "", ![s].account = 0]

\* ApiHandler::Account_ChangePassword (/account/change_password), lines
\* 269-323: the account of the session's username gets the new password and
\* salt, and the session is cleared whatever Update(db) returned.
AccountChangePassword(t) ==
  /\ At(t, "handler")
  /\ req[t].method = ChangePassword
  /\ LET s == lcl[t].session
         a == LoadAccountByUsername(sessions[s].username)
         r == req[t]
     IN IF a = 0
        THEN HandlerSays(t, "Account not found.")
             /\ UNCHANGED <<accounts, sessions>>
        ELSE IF ~r.has_password
        THEN HandlerSays(t, "Password is missing.")
             /\ UNCHANGED <<accounts, sessions>>
        ELSE IF ~GoodPassword(r.password)
        THEN HandlerSays(t, "Bad password")
             /\ UNCHANGED <<accounts, sessions>>
        ELSE \E didUpdate \in BOOLEAN :
               /\ accounts' = [accounts EXCEPT
                                ![a] = Updated(WithPassword(r, @), didUpdate)]
               /\ sessions' = SessionAfterPasswordChange(s)
               /\ HandlerSays(t, IF didUpdate THEN "Success"
                                 ELSE "Failed to update password.")
  /\ UNCHANGED <<apiAdminLvl, promos, webGame, challenged, postItems, hl,
                 mSessions, mSessionLock, nextNonce, crashed, req, lcl,
                 received, hist, accepted, enemy, client>>

\* ------------------------------------------------------ /account/register
\* Line 420: username.Matches("^[a-z][a-z0-9]{3,31}$"); the usernames of the
\* requests are letters, so after ToLower the length decides.
UsernameMatches(u) == Len(u) >= 4 /\ Len(u) <= 32

\* Lines 429-439: email.Matches(RFC 5322); the addresses of the requests
\* that have that form.
WellFormedEmails == {"a@x.com", "c@x.com", "d@x.com"}
EmailMatches(e) == e \in WellFormedEmails

\* objects::Account::LoadAccountByEmail(db, email) finds a row.
LoadAccountByEmail(e) ==
  \E i \in 1..Len(accounts) : accounts[i].inDb /\ accounts[i].email = e

\* Lines 448-449: an account with the username or the email is in the
\* database.
AccountExists_Never(u, e) == FALSE
AccountExists(u, e) == LoadAccountByUsername(u) # 0 \/ LoadAccountByEmail(e)

\* Lines 459-462: mConfig->GetRegistrationCP(), GetRegistrationUserLevel(),
\* GetRegistrationAccountEnabled().
RegistrationCP == 0
RegistrationUserLevel == 0
RegistrationAccountEnabled == TRUE

\* Lines 455-476: the account object Account_Register fills in.
NewAccount(r) ==
  [username |-> ToLower(r.username),
   password |-> StoredHash(r.password, GenerateSalt),
   salt |-> GenerateSalt, enabled |-> RegistrationAccountEnabled,
   userLevel |-> RegistrationUserLevel, cp |-> RegistrationCP,
   dbCP |-> RegistrationCP,
   dbPassword |-> StoredHash(r.password, GenerateSalt),
   inDb |-> TRUE, email |-> r.email]

\* ApiHandler::Account_Register (/account/register), lines 390-452: missing
\* fields fail the request, a field of the wrong form or an account that
\* exists is reported, otherwise the handler goes on to create the account.
AccountRegister(t) ==
  /\ At(t, "handler")
  /\ req[t].method = Register
  /\ LET r == req[t]
         username == ToLower(r.username)
     IN IF username = "" \/ r.email = "" \/ r.password = ""
        THEN HandlerReturns(t, FALSE) /\ UNCHANGED response
        ELSE IF ~UsernameMatches(username)
        THEN HandlerSays(t, "Bad username")
        ELSE IF ~GoodPassword(r.password)
        THEN HandlerSays(t, "Bad password")
        ELSE IF ~EmailMatches(r.email)
        THEN HandlerSays(t, "Bad email")
        ELSE IF AccountExists(username, r.email)
        THEN HandlerSays(t, "Account exists")
        ELSE SetPc(t, "registerInsert")
             /\ UNCHANGED <<response, requestLock, status>>
  /\ UNCHANGED <<store, mSessions, sessions, mSessionLock, nextNonce, crashed,
                 req, lcl, received, hist, accepted>>

\* ApiHandler::Account_Register, lines 454-483: the account is filled in and
\* inserted; Insert(db) may fail.
AccountRegisterInsert(t) ==
  /\ At(t, "registerInsert")
  /\ \E inserted \in BOOLEAN :
       IF inserted
       THEN /\ accounts' = Append(accounts, NewAccount(req[t]))
            /\ postItems' = Append(postItems, 0)
            /\ HandlerSays(t, "Success")
       ELSE /\ UNCHANGED <<accounts, postItems>>
            /\ HandlerSays(t, "Failed to create account.")
  /\ UNCHANGED <<apiAdminLvl, promos, webGame, challenged, hl, mSessions,
                 sessions, mSessionLock, nextNonce, crashed, req, lcl,
                 received, hist, accepted, enemy, client>>


\* ---------------------------------------------------- /admin/delete_promo
\* objects::Promo::LoadPromoListByCode(db, code): the rows with the code.
RECURSIVE PromoIdsFrom(_, _)
PromoIdsFrom(i, code) ==
  IF i > Len(promos) THEN <<>>
  ELSE IF promos[i].inDb /\ promos[i].code = code
       THEN <<i>> \o PromoIdsFrom(i + 1, code)
       ELSE PromoIdsFrom(i + 1, code)
LoadPromoListByCode(code) == PromoIdsFrom(1, code)

\* Line 1403: the text "Deleted %1 promotions."; its argument is kept beside
\* it in the response (count).
DeletedPromotions == "Deleted %1 promotions."

\* ApiHandler::Admin_DeletePromo (/admin/delete_promo), lines 1365-1391: the
\* level, the code of the request, the list of promos with that code.
AdminDeletePromo(t) ==
  /\ At(t, "handler")
  /\ req[t].method = DeletePromo
  /\ LET s == lcl[t].session
     IN IF ~HaveUserLevel(s, apiAdminLvl[DeletePromo])
        THEN LevelRefused(t, apiAdminLvl[DeletePromo]) /\ UNCHANGED hl
        ELSE IF req[t].code = ""
        THEN HandlerSays(t, "Invalid promo code.") /\ UNCHANGED hl
        ELSE /\ hl' = [hl EXCEPT
                         ![t] = [NoHandlerLocals EXCEPT
                                   !.promoList = LoadPromoListByCode(req[t].code)]]
             /\ SetPc(t, "promoDelete")
             /\ UNCHANGED <<response, requestLock, status>>
  /\ UNCHANGED <<accounts, apiAdminLvl, promos, webGame, challenged, postItems,
                 mSessions, sessions, mSessionLock, nextNonce, crashed, req,
                 lcl, received, hist, accepted, enemy, client>>

\* Line 1395: promo->Delete(db) removes the row when it succeeds.
PromosAfterDelete(id) == [promos EXCEPT ![id].inDb = FALSE]

\* ApiHandler::Admin_DeletePromo, lines 1393-1406: one turn of the loop over
\* the list (Delete(db) may fail, which ends the handler), or the reply with
\* the count once the list is through.
AdminDeletePromoNext(t) ==
  /\ At(t, "promoDelete")
  /\ LET list == hl[t].promoList
         n == hl[t].promoCount
     IN IF n = Len(list)
        THEN /\ response' = [response EXCEPT ![t].error = DeletedPromotions,
                                             ![t].count = n]
             /\ HandlerReturns(t, TRUE)
             /\ UNCHANGED <<promos, hl>>
        ELSE \E deleted \in BOOLEAN :
               IF deleted
               THEN /\ promos' = PromosAfterDelete(list[n + 1])
                    /\ hl' = [hl EXCEPT ![t].promoCount = n + 1]
                    /\ UNCHANGED <<pc, response, requestLock, status>>
               ELSE /\ HandlerSays(t, "Failed to delete promo.")
                    /\ UNCHANGED <<promos, hl>>
  /\ UNCHANGED <<accounts, apiAdminLvl, webGame, challenged, postItems,
                 mSessions, sessions, mSessionLock, nextNonce, crashed, req,
                 lcl, received, hist, accepted, enemy, client>>

\* ------------------------------------------- WebGameScript_UpdateCoins
\* int64_t, scaled to four bits: the values a coin amount can take.
CoinModulus == 16
Int64 == (0 - (CoinModulus \div 2))..((CoinModulus \div 2) - 1)

\* Line 1796: "amount + coins" in int64_t; a sum outside the type is
\* undefined behaviour and yields any value of the type.
SumInt64(a, b) == IF a + b \in Int64 THEN {a + b} ELSE Int64

\* Lines 1797-1799: "if (newAmount < 0) newAmount = 0".
ClampCoins(v) == IF v < 0 THEN 0 ELSE v

\* Everything but the web-game session.
besidesWebGame ==
  <<accounts, apiAdminLvl, mSessions, sessions, requestLock, mSessionLock,
    nextNonce, crashed, pc, req, lcl, response, status, received, hist,
    accepted, challenged, postItems, hl, promos, enemy, client>>

\* ApiHandler::WebGameScript_UpdateCoins, lines 1777-1799: a script of the
\* game calls UpdateCoins(coins, adjust); without a game session, a world
\* database, a character or its progress the call returns false, otherwise
\* the amount is read and the new amount computed.
UpdateCoinsRead(coins, adjust) ==
  /\ webGame.at \in {"idle", "returned"}
  /\ webGame.calls < MaxRequests
  /\ LET w == [webGame EXCEPT !.calls = @ + 1, !.coinsArg = coins,
                               !.adjust = adjust]
     IN IF ~w.gameSession \/ ~w.worldDB \/ ~w.progress
        THEN webGame' = [w EXCEPT !.at = "returned", !.result = FALSE]
        ELSE \E sum \in (IF adjust THEN SumInt64(w.stored, coins)
                         ELSE {coins}) :
               webGame' = [w EXCEPT !.at = "write", !.amount = w.stored,
                                    !.newAmount = ClampCoins(sum)]
  /\ UNCHANGED besidesWebGame

\* Lines 1801-1822: the write is skipped when the amount is the new amount,
\* otherwise the changeset sets Coins from the amount read to the new amount
\* (it fails when the stored value is another one, or when the write fails);
\* on success the game session's coins are set.
UpdateCoinsWrite ==
  /\ webGame.at = "write"
  /\ \E writesOk \in BOOLEAN :
       LET w == webGame
           success == IF w.amount = w.newAmount THEN TRUE
                      ELSE writesOk /\ w.stored = w.amount
       IN webGame' =
            [w EXCEPT !.at = "returned", !.result = success,
                      !.stored = IF success /\ w.amount # w.newAmount
                                 THEN w.newAmount ELSE @,
                      !.coins = IF success THEN w.newAmount ELSE @]
  /\ UNCHANGED besidesWebGame

\* The world that owns the database writes the character's coins.
WorldWritesCoins(v) ==
  /\ webGame.gameSession /\ webGame.progress
  /\ webGame.stored # v
  /\ webGame' = [webGame EXCEPT !.stored = v]
  /\ UNCHANGED besidesWebGame

\* ----------------------------------------------------- /admin/kick_player
\* mAccountManager->IsLoggedIn(username, worldID) and the connections found:
\* not logged in; in the lobby (worldID -1) with or without a client
\* connection; in a world with or without a connection to it.
KickLogins == {"notLoggedIn", "lobby", "lobbyGone", "world", "worldGone"}

\* Line 791: (int8_t)it->second.getInteger(), the integer folded into 8 bits.
ToInt8(v) == ((v + 128) % 256) - 128

\* Lines 756 and 788-792: the kick level of the request, 1 without the field.
KickLevelOf(r) == IF r.has_kick_level THEN ToInt8(r.kick_level) ELSE 1

\* Line 794: "if (kickLevel < 1 || kickLevel > 3)".
InvalidKickLevel(k) == k < 1 \/ k > 3

\* ApiHandler::Admin_KickPlayer (/admin/kick_player), lines 747-813.
AdminKickPlayer(t) ==
  /\ At(t, "handler")
  /\ req[t].method = KickPlayer
  /\ LET s == lcl[t].session
         r == req[t]
         found(login) == [NoHandlerLocals EXCEPT !.login = login]
     IN IF ~HaveUserLevel(s, apiAdminLvl[KickPlayer])
        THEN /\ LevelRefused(t, apiAdminLvl[KickPlayer])
             /\ hl' = [hl EXCEPT ![t] = NoHandlerLocals]
        ELSE IF GetAccountError(r) # ""
        THEN /\ HandlerSays(t, GetAccountError(r))
             /\ hl' = [hl EXCEPT ![t] = NoHandlerLocals]
        ELSE \E login \in KickLogins :
               IF login = "notLoggedIn"
               THEN /\ HandlerSays(t, "Target account is not logged in.")
                    /\ hl' = [hl EXCEPT ![t] = found(login)]
               ELSE IF login \in {"lobby", "lobbyGone"}
               THEN /\ HandlerSays(t, "Success")
                    /\ hl' = [hl EXCEPT ![t] = [found(login) EXCEPT
                                                  !.closed = login = "lobby"]]
               ELSE IF login = "worldGone"
               THEN /\ HandlerSays(t, "Account (somehow) connected to invalid world.")
                    /\ hl' = [hl EXCEPT ![t] = found(login)]
               ELSE IF InvalidKickLevel(KickLevelOf(r))
               THEN /\ HandlerSays(t, "Invalid kick level specified.")
                    /\ hl' = [hl EXCEPT ![t] = found(login)]
               ELSE /\ HandlerSays(t, "Success")
                    /\ hl' = [hl EXCEPT ![t] = [found(login) EXCEPT
                                                  !.sent = TRUE,
                                                  !.kickLevel = KickLevelOf(r)]]
  /\ UNCHANGED <<accounts, apiAdminLvl, promos, webGame, challenged, postItems,
                 mSessions, sessions, mSessionLock, nextNonce, crashed, req,
                 lcl, received, hist, accepted, enemy, client>>

\* ------------------------------------------------------------- /webgame/
\* Lines 1977-1999 and 2040-2088: a /webgame/ request gets its session from
\* the account manager by username and session id; without one it is answered
\* 401, otherwise it is authorized and goes on to its handler.
WebGameReceive(t, r) ==
  /\ ~crashed
  /\ pc[t] \in {"idle", "done"}
  /\ \A u \in Threads : Before(u, t) => pc[u] \notin {"idle", "done"}
  /\ received < MaxRequests
  /\ received' = received + 1
  /\ req' = [req EXCEPT ![t] = r]
  /\ response' = [response EXCEPT ![t] = EmptyResponse]
  /\ hist' = [hist EXCEPT ![t] = NoHist]
  /\ IF r.sessionid = webGame.sessionid
     THEN /\ lcl' = [lcl EXCEPT ![t] = [NoLocals EXCEPT !.session = 1,
                                                        !.found = 1]]
          /\ IF IsRegistered(r.method)
             THEN SetPc(t, "lockRequest") /\ UNCHANGED status
             ELSE ReplyStatus(t, 404)
     ELSE /\ lcl' = [lcl EXCEPT ![t] = NoLocals]
          /\ ReplyStatus(t, 401)
  /\ UNCHANGED <<store, mSessions, sessions, requestLock, mSessionLock,
                 nextNonce, crashed, accepted>>

\* ApiHandler::GetWebGameSession, lines 2174-2193: the error it leaves in the
\* response, "" when the game session and its world are there.
WebGameSessionError ==
  IF ~webGame.gameSession THEN "Invalid session"
  ELSE IF ~webGame.world THEN "World connection down"
  ELSE ""

\* mGameDefinitions: the game types that are defined.
GameDefinitions == {"slots"}

\* Line 1558: "if (webGameSession->gameState)".
HasGameState_Never(w) == FALSE
HasGameState(w) == w.gameState # 0

\* What WebGame_Start meets after it made the script engine: the program
\* does not evaluate, the character or its progress is not loaded, the start
\* function fails, there is no start function, the start function succeeds.
StartOutcomes == {"evalFails", "noCharacter", "startFails", "noStart", "started"}

\* The error WebGame_Start answers for an outcome ("Success" is set at line
\* 1634 when the start function has set none; without a start function no
\* error field is written).
StartError(o) ==
  IF o = "evalFails" THEN "Game could not be started"
  ELSE IF o = "noCharacter" THEN "Character information could not be retrieved"
  ELSE IF o = "startFails" THEN "Unknown error encountered while starting game"
  ELSE IF o = "noStart" THEN ""
  ELSE "Success"

\* Lines 1577 and 1607-1632: the session's gameState when WebGame_Start
\* returns after making script engine number id.
GameStateAfterStart(id, o) == id

\* ApiHandler::WebGame_Start (/webgame/start), lines 1548-1575: the game
\* session, the script engine the session may have, the type of the game.
WebGame_Start(t) ==
  /\ At(t, "handler")
  /\ req[t].method = WebGameStart
  /\ IF WebGameSessionError # ""
     THEN HandlerSays(t, WebGameSessionError) /\ UNCHANGED webGame
     ELSE IF HasGameState(webGame)
     THEN HandlerSays(t, "Game has already been started") /\ UNCHANGED webGame
     ELSE IF req[t].type = ""
     THEN HandlerSays(t, "Game type was not specified") /\ UNCHANGED webGame
     ELSE IF req[t].type \notin GameDefinitions
     THEN HandlerSays(t, "Specified game type is not valid")
          /\ UNCHANGED webGame
     ELSE /\ SetPc(t, "gameMake")
          /\ UNCHANGED <<webGame, response, requestLock, status>>
  /\ UNCHANGED <<accounts, apiAdminLvl, promos, challenged, postItems, hl,
                 mSessions, sessions, mSessionLock, nextNonce, crashed, req,
                 lcl, received, hist, accepted, enemy, client>>

\* ApiHandler::WebGame_Start, lines 1577-1643: the script engine is made and
\* stored on the session, the program evaluated, the character loaded, the
\* start function called.
WebGame_StartMake(t) ==
  /\ At(t, "gameMake")
  /\ \E o \in StartOutcomes :
       /\ webGame' =
            [webGame EXCEPT
               !.made = @ + 1,
               !.gameState = GameStateAfterStart(webGame.made + 1, o),
               !.ran = IF o \in {"startFails", "started"} THEN @ + 1 ELSE @]
       /\ HandlerSays(t, StartError(o))
  /\ UNCHANGED <<accounts, apiAdminLvl, promos, challenged, postItems, hl,
                 mSessions, sessions, mSessionLock, nextNonce, crashed, req,
                 lcl, received, hist, accepted, enemy, client>>

\* The functions the program of the game defines besides start.
GameFunctions == {"spin"}

\* ApiHandler::WebGame_Update (/webgame/update), lines 1645-1707.
WebGame_Update(t) ==
  /\ At(t, "handler")
  /\ req[t].method = WebGameUpdate
  /\ IF WebGameSessionError # ""
     THEN HandlerSays(t, WebGameSessionError) /\ UNCHANGED webGame
     ELSE IF ~HasGameState(webGame)
     THEN HandlerSays(t, "Game not started") /\ UNCHANGED webGame
     ELSE IF req[t].action = ""
     THEN HandlerSays(t, "No action specified") /\ UNCHANGED webGame
     ELSE IF req[t].action \notin GameFunctions
     THEN HandlerSays(t, "Invalid action attempted: %1") /\ UNCHANGED webGame
     ELSE \E ok \in BOOLEAN :
            /\ webGame' = [webGame EXCEPT !.ran = @ + 1]
            /\ HandlerSays(t, IF ok THEN "Success"
                              ELSE "Unknown error encountered")
  /\ UNCHANGED <<accounts, apiAdminLvl, promos, challenged, postItems, hl,
                 mSessions, sessions, mSessionLock, nextNonce, crashed, req,
                 lcl, received, hist, accepted, enemy, client>>

\* ---------------------------------------------------------- specification
Next ==
  \/ \E t \in Threads : \E r \in Requests : Receive(t, r)
  \/ \E t \in Threads : AssignSession(t)
  \/ \E t \in Threads : AuthEntry(t)
  \/ \E t \in Threads : AuthVerify(t)
  \/ \E t \in Threads : AuthRotate(t)
  \/ \E t \in Threads : Authorize(t)
  \/ \E t \in Threads : AuthLevel(t)
  \/ \E t \in Threads : LockRequest(t)
  \/ \E t \in Threads : AuthToken(t)
  \/ \E t \in Threads : AuthTokenStore(t)
  \/ \E t \in Threads : AccountGetCP(t)
  \/ \E t \in Threads : AdminDeleteAccount(t)

Spec == Init /\ [][Next]_vars

\* ------------------------------------- specification of the admin commands
\* Two administrators' requests that have passed Authenticate (their sessions
\* hold the rotated challenges) and now go through the authorization of
\* handlePost and their handlers, against one target account.
ConfiguredLevels == {500, 1000}
OperatorLevels == {500, 1000}
InitialCP == 5

\* The accounts: the superuser, an operator of level bl, the target.
AdminAccounts(bl) ==
  << [username |-> "alice", password |-> "pwA", salt |-> "saltA",
      enabled |-> TRUE, userLevel |-> 1000, cp |-> 0, dbCP |-> 0,
      dbPassword |-> "pwA", inDb |-> TRUE, email |-> "a@x.com"],
     [username |-> "bob", password |-> "pwB", salt |-> "saltB",
      enabled |-> TRUE, userLevel |-> bl, cp |-> 0, dbCP |-> 0,
      dbPassword |-> "pwB", inDb |-> TRUE, email |-> "b@x.com"],
     [username |-> "carol", password |-> "pwC", salt |-> "saltC",
      enabled |-> TRUE, userLevel |-> 0, cp |-> InitialCP,
      dbCP |-> InitialCP,
      dbPassword |-> "pwC", inDb |-> TRUE, email |-> "c@x.com"] >>
Target == 3

\* /admin/post_items requests of session su: costs around the balance, with
\* good, missing and unknown products, and on an account that does not exist.
PostItemsRequests(su) ==
  {[AdminRequest(PostItems, su, "carol") EXCEPT
      !.has_cp = TRUE, !.cp = c, !.products = <<1>>] : c \in {-1, 3, 4, 6}}
  \cup
  {[AdminRequest(PostItems, su, "carol") EXCEPT !.products = ps] :
     ps \in {<<1>>, <<>>}}
  \cup
  {[AdminRequest(PostItems, su, "carol") EXCEPT
      !.has_cp = TRUE, !.cp = 3, !.products = ps] : ps \in {<<2, 1>>, <<9>>}}
  \cup
  {[AdminRequest(PostItems, su, u) EXCEPT
      !.has_cp = TRUE, !.cp = 3, !.products = <<1>>] : u \in {"", "dave"}}

\* /admin/update_account requests of session su: a balance for the target, a
\* level for the operator or the superuser, refused values.
UpdateAccountRequests(su) ==
  {[AdminRequest(UpdateAccount, su, "carol") EXCEPT !.has_cp = TRUE, !.cp = c] :
     c \in {-1, 9}}
  \cup
  {[AdminRequest(UpdateAccount, su, u) EXCEPT
      !.has_user_level = TRUE, !.user_level = 0] : u \in {"bob", "alice"}}
  \cup
  {[AdminRequest(UpdateAccount, su, "carol") EXCEPT
      !.has_cp = TRUE, !.cp = 2,
      !.has_user_level = TRUE, !.user_level = 2000]}

AdminRequests(su) ==
  PostItemsRequests(su) \cup UpdateAccountRequests(su)
  \cup {AdminRequest(DeleteAccount, su, "carol")}

\* The locals of a request of session s that Authenticate let through with
\* the challenge c.
Authenticated(s, pw, c) ==
  [session |-> s, found |-> s, validChallenge |-> HashPassword(pw, c),
   authenticated |-> TRUE, ran |-> FALSE]

AdminInit ==
  /\ \E bl \in OperatorLevels : accounts = AdminAccounts(bl)
  /\ \E lv \in ConfiguredLevels : apiAdminLvl = [m \in AdminMethods |-> lv]
  /\ postItems = [i \in 1..3 |-> 0]
  /\ hl = [t \in Threads |-> NoHandlerLocals]
  /\ promos = NoPromos
  /\ webGame = NoWebGame
  /\ enemy = NoEnemy
  /\ client = NoClient
  /\ mSessions = [k \in Keys |-> IF k = "alice" THEN 1
                                 ELSE IF k = "bob" THEN 2 ELSE 0]
  /\ requestLock = <<NoThread, NoThread>>
  /\ mSessionLock = NoThread
  /\ nextNonce = 5
  /\ crashed = FALSE
  /\ pc = [t \in Threads |-> "authorize"]
  /\ status = [t \in Threads |-> 0]
  /\ received = 2
  /\ hist = [t \in Threads |-> NoHist]
  /\ challenged = <<TRUE, TRUE>>
  /\ \E s2 \in {1, 2} :
       /\ sessions =
            << [username |-> "alice", account |-> 1,
                challenge |-> IF s2 = 1 THEN 4 ELSE 3],
               [username |-> "bob", account |-> 2,
                challenge |-> IF s2 = 1 THEN 2 ELSE 4] >>
       /\ accepted = IF s2 = 1 THEN << {1, 3}, {} >> ELSE << {1}, {2} >>
       /\ lcl = [t \in Threads |->
                   IF t = "t1" THEN Authenticated(1, "pwA", 1)
                   ELSE IF s2 = 1 THEN Authenticated(1, "pwA", 3)
                   ELSE Authenticated(2, "pwB", 2)]
       /\ response = [t \in Threads |->
                        [EmptyResponse EXCEPT
                           !.challenge = IF t = "t1" THEN 3 ELSE 4]]
       /\ \E r1 \in AdminRequests("alice") :
            \E r2 \in AdminRequests(IF s2 = 1 THEN "alice" ELSE "bob") :
              req = [t \in Threads |-> IF t = "t1" THEN r1 ELSE r2]

AdminNext ==
  \/ \E t \in Threads : Authorize(t)
  \/ \E t \in Threads : AuthLevel(t)
  \/ \E t \in Threads : LockRequest(t)
  \/ \E t \in Threads : AdminPostItems(t)
  \/ \E t \in Threads : AdminPostItemsBuild(t)
  \/ \E t \in Threads : AdminPostItemsApply(t)
  \/ \E t \in Threads : AdminPostItemsRelay(t)
  \/ \E t \in Threads : AdminUpdateAccount(t)
  \/ \E t \in Threads : AdminUpdateAccountApply(t)
  \/ \E t \in Threads : AdminDeleteAccount(t)

SpecAdmin == AdminInit /\ [][AdminNext]_vars

\* ------------------------- specification of the invalidating commands
\* The sessions of the administrator and of a player hold the challenges of
\* two earlier /auth/get_challenge calls; then come /account/get_cp,
\* /admin/delete_account (of oneself or of the player),
\* /account/change_password and /auth/get_challenge.
EarlierChallenge(k) == IF k = "alice" THEN -1 ELSE -2
NewPassword == "newpass1"

InvalidateAccounts ==
  << [username |-> "alice", password |-> "pwA", salt |-> "saltA",
      enabled |-> TRUE, userLevel |-> 1000, cp |-> 5, dbCP |-> 5,
      dbPassword |-> "pwA", inDb |-> TRUE, email |-> "a@x.com"],
     [username |-> "bob", password |-> "pwB", salt |-> "saltB",
      enabled |-> TRUE, userLevel |-> 0, cp |-> 7, dbCP |-> 7,
      dbPassword |-> "pwB", inDb |-> TRUE, email |-> "b@x.com"] >>

\* The answers the owner of session k sends: the hash of the old or of the
\* new password hash with the challenge the session holds.
LaterAnswers(k) ==
  {[has |-> TRUE,
    val |-> HashPassword(p, sessions[mSessions[k]].challenge)] :
     p \in {ClientPassword(k)} \cup
           (IF k = "alice" THEN {StoredHash(NewPassword, GenerateSalt)}
            ELSE {})}

\* The answer to the session's challenge with the password the client has.
CurrentAnswers(k) ==
  {[has |-> TRUE,
    val |-> HashPassword(ClientPassword(k), sessions[mSessions[k]].challenge)]}

InvalidateRequests ==
  {AdminRequest(GetChallenge, "", u) : u \in Clients}
  \cup
  UNION {{[AdminRequest(GetCP, su, "") EXCEPT
             !.has_challenge = a.has, !.challenge = a.val] :
              a \in LaterAnswers(su)} : su \in Clients}
  \cup
  UNION {{[AdminRequest(DeleteAccount, "alice", u) EXCEPT
             !.has_challenge = a.has, !.challenge = a.val] :
              a \in CurrentAnswers("alice")} : u \in Clients}
  \cup
  UNION {{[AdminRequest(ChangePassword, "alice", "") EXCEPT
             !.has_challenge = a.has, !.challenge = a.val,
             !.has_password = h, !.password = p] :
              a \in CurrentAnswers("alice")} :
           <<h, p>> \in {<<TRUE, NewPassword>>, <<TRUE, "short">>}}

InvalidateInit ==
  /\ accounts = InvalidateAccounts
  /\ apiAdminLvl = [m \in AdminMethods |-> 1000]
  /\ postItems = [i \in 1..2 |-> 0]
  /\ hl = [t \in Threads |-> NoHandlerLocals]
  /\ promos = NoPromos
  /\ webGame = NoWebGame
  /\ enemy = NoEnemy
  /\ client = NoClient
  /\ mSessions = [k \in Keys |-> IF k = "alice" THEN 1
                                 ELSE IF k = "bob" THEN 2 ELSE 0]
  /\ sessions = << [username |-> "alice", account |-> 1,
                    challenge |-> EarlierChallenge("alice")],
                   [username |-> "bob", account |-> 2,
                    challenge |-> EarlierChallenge("bob")] >>
  /\ requestLock = <<NoThread, NoThread>>
  /\ mSessionLock = NoThread
  /\ nextNonce = 1
  /\ crashed = FALSE
  /\ pc = [t \in Threads |-> "idle"]
  /\ req = [t \in Threads |-> NoRequest]
  /\ lcl = [t \in Threads |-> NoLocals]
  /\ response = [t \in Threads |-> EmptyResponse]
  /\ status = [t \in Threads |-> 0]
  /\ received = 0
  /\ hist = [t \in Threads |-> NoHist]
  /\ accepted = << {}, {} >>
  /\ challenged = <<TRUE, TRUE>>

InvalidateNext ==
  \/ \E t \in Threads : \E r \in InvalidateRequests : Receive(t, r)
  \/ \E t \in Threads : AssignSession(t)
  \/ \E t \in Threads : AuthEntry(t)
  \/ \E t \in Threads : AuthVerify(t)
  \/ \E t \in Threads : AuthRotate(t)
  \/ \E t \in Threads : Authorize(t)
  \/ \E t \in Threads : AuthLevel(t)
  \/ \E t \in Threads : LockRequest(t)
  \/ \E t \in Threads : AuthToken(t)
  \/ \E t \in Threads : AuthTokenStore(t)
  \/ \E t \in Threads : AccountGetCP(t)
  \/ \E t \in Threads : AdminDeleteAccount(t)
  \/ \E t \in Threads : AccountChangePassword(t)

SpecInvalidate == InvalidateInit /\ [][InvalidateNext]_vars

\* ------------------------------------- specification of registration
\* Requests to /account/register against a database that holds carol:
\* the new name in two spellings, the name that exists, a name too short,
\* new and used addresses, a password too short, a missing address.
RegisterRequest(u, e, p) ==
  [method |-> Register, username |-> u, session_username |-> "",
   has_challenge |-> FALSE, challenge |-> NoAnswer, email |-> e,
   password |-> p]

RegisterRequests ==
  {RegisterRequest(u, e, "Passw0rd") :
     u \in {"Alice", "alice", "carol"}, e \in {"a@x.com", "d@x.com"}}
  \cup
  {RegisterRequest("bob", "a@x.com", "Passw0rd"),
   RegisterRequest("dave", "a@x.com", "Passw0rd"),
   RegisterRequest("alice", "c@x.com", "Passw0rd"),
   RegisterRequest("alice", "a@x.com", "short"),
   RegisterRequest("alice", "nobody", "Passw0rd"),
   RegisterRequest("alice", "", "Passw0rd")}

RegisterAccounts ==
  << [username |-> "carol", password |-> "pwC", salt |-> "saltC",
      enabled |-> TRUE, userLevel |-> 0, cp |-> 0, dbCP |-> 0,
      dbPassword |-> "pwC", inDb |-> TRUE, email |-> "c@x.com"] >>

RegisterInit ==
  /\ accounts = RegisterAccounts
  /\ apiAdminLvl = [m \in AdminMethods |-> 1000]
  /\ postItems = <<0>>
  /\ hl = [t \in Threads |-> NoHandlerLocals]
  /\ promos = NoPromos
  /\ webGame = NoWebGame
  /\ enemy = NoEnemy
  /\ client = NoClient
  /\ mSessions = [k \in Keys |-> 0]
  /\ sessions = <<>>
  /\ requestLock = <<>>
  /\ mSessionLock = NoThread
  /\ nextNonce = 1
  /\ crashed = FALSE
  /\ pc = [t \in Threads |-> "idle"]
  /\ req = [t \in Threads |-> NoRequest]
  /\ lcl = [t \in Threads |-> NoLocals]
  /\ response = [t \in Threads |-> EmptyResponse]
  /\ status = [t \in Threads |-> 0]
  /\ received = 0
  /\ hist = [t \in Threads |-> NoHist]
  /\ accepted = <<>>
  /\ challenged = <<>>

RegisterNext ==
  \/ \E t \in Threads : \E r \in RegisterRequests : Receive(t, r)
  \/ \E t \in Threads : AssignSession(t)
  \/ \E t \in Threads : LockRequest(t)
  \/ \E t \in Threads : AccountRegister(t)
  \/ \E t \in Threads : AccountRegisterInsert(t)

SpecRegister == RegisterInit /\ [][RegisterNext]_vars


\* ------------------------------------- specification of promo deletion
\* Two administrators' authenticated requests to /admin/delete_promo, on one
\* session or on two, against three promos of which two or three share the
\* code "X".
PromoCodes == {"X", "Y"}
PromoRequest(su, code) ==
  [method |-> DeletePromo, username |-> "", session_username |-> su,
   has_challenge |-> TRUE, challenge |-> NoAnswer, code |-> code]
PromoRequests(su) == {PromoRequest(su, code) : code \in PromoCodes \cup {""}}

InitialPromos(c) ==
  << [code |-> "X", inDb |-> TRUE], [code |-> "X", inDb |-> TRUE],
     [code |-> c, inDb |-> TRUE] >>

PromoInit ==
  /\ \E bl \in OperatorLevels : accounts = AdminAccounts(bl)
  /\ apiAdminLvl = [m \in AdminMethods |-> 1000]
  /\ postItems = [i \in 1..3 |-> 0]
  /\ hl = [t \in Threads |-> NoHandlerLocals]
  /\ \E c \in PromoCodes : promos = InitialPromos(c)
  /\ webGame = NoWebGame
  /\ enemy = NoEnemy
  /\ client = NoClient
  /\ mSessions = [k \in Keys |-> IF k = "alice" THEN 1
                                 ELSE IF k = "bob" THEN 2 ELSE 0]
  /\ requestLock = <<NoThread, NoThread>>
  /\ mSessionLock = NoThread
  /\ nextNonce = 5
  /\ crashed = FALSE
  /\ pc = [t \in Threads |-> "authorize"]
  /\ status = [t \in Threads |-> 0]
  /\ received = 2
  /\ hist = [t \in Threads |-> NoHist]
  /\ challenged = <<TRUE, TRUE>>
  /\ accepted = << {1}, {2} >>
  /\ sessions = << [username |-> "alice", account |-> 1, challenge |-> 3],
                   [username |-> "bob", account |-> 2, challenge |-> 4] >>
  /\ \E s2 \in {1, 2} :
       /\ lcl = [t \in Threads |->
                   IF t = "t1" THEN Authenticated(1, "pwA", 1)
                   ELSE IF s2 = 1 THEN Authenticated(1, "pwA", 1)
                   ELSE Authenticated(2, "pwB", 2)]
       /\ response = [t \in Threads |->
                        [EmptyResponse EXCEPT
                           !.challenge = IF t = "t1" \/ s2 = 1 THEN 3 ELSE 4]]
       /\ \E r1 \in PromoRequests("alice") :
            \E r2 \in PromoRequests(IF s2 = 1 THEN "alice" ELSE "bob") :
              req = [t \in Threads |-> IF t = "t1" THEN r1 ELSE r2]

PromoNext ==
  \/ \E t \in Threads : Authorize(t)
  \/ \E t \in Threads : AuthLevel(t)
  \/ \E t \in Threads : LockRequest(t)
  \/ \E t \in Threads : AdminDeletePromo(t)
  \/ \E t \in Threads : AdminDeletePromoNext(t)

SpecPromo == PromoInit /\ [][PromoNext]_vars

\* ------------------------------------- specification of the game coins
\* Scripts of one web game call UpdateCoins on a character whose progress
\* holds some coins, while the world may write the coins as well.
CoinArguments == {-8, -3, 0, 2, 7}
StoredCoins == {0, 3, 7}
WorldCoins == {0, 5}

InitialWebGames ==
  {[gameSession |-> g, worldDB |-> d, progress |-> p, stored |-> c,
    coins |-> c, at |-> "idle", calls |-> 0, coinsArg |-> 0,
    adjust |-> FALSE, amount |-> 0, newAmount |-> 0, result |-> FALSE] :
     g \in BOOLEAN, d \in BOOLEAN, p \in BOOLEAN, c \in StoredCoins}

CoinsInit ==
  /\ accounts = InitialAccounts
  /\ apiAdminLvl = [m \in AdminMethods |-> 1000]
  /\ postItems = [i \in 1..Len(InitialAccounts) |-> 0]
  /\ hl = [t \in Threads |-> NoHandlerLocals]
  /\ promos = NoPromos
  /\ webGame \in InitialWebGames
  /\ enemy = NoEnemy
  /\ client = NoClient
  /\ mSessions = [k \in Keys |-> 0]
  /\ sessions = <<>>
  /\ requestLock = <<>>
  /\ mSessionLock = NoThread
  /\ nextNonce = 1
  /\ crashed = FALSE
  /\ pc = [t \in Threads |-> "idle"]
  /\ req = [t \in Threads |-> NoRequest]
  /\ lcl = [t \in Threads |-> NoLocals]
  /\ response = [t \in Threads |-> EmptyResponse]
  /\ status = [t \in Threads |-> 0]
  /\ received = 0
  /\ hist = [t \in Threads |-> NoHist]
  /\ accepted = <<>>
  /\ challenged = <<>>

CoinsNext ==
  \/ \E coins \in CoinArguments : \E adjust \in BOOLEAN :
       UpdateCoinsRead(coins, adjust)
  \/ UpdateCoinsWrite
  \/ \E v \in WorldCoins : WorldWritesCoins(v)

SpecCoins == CoinsInit /\ [][CoinsNext]_vars

\* ------------------------- specification of updates by an administrator
\* The sessions of the administrator and of a player hold the challenges of
\* two earlier /auth/get_challenge calls; the administrator sends
\* /admin/update_account for the player (a new password, a disabled account,
\* a balance, refused values after accepted ones) and the player sends
\* /account/get_cp with the answer made from the old or the new password.
PlayerAnswers ==
  {[has |-> TRUE, val |-> HashPassword(p, sessions[mSessions["bob"]].challenge)] :
     p \in {ClientPassword("bob"), StoredHash(NewPassword, GenerateSalt)}}

PlayerUpdates ==
  {[AdminRequest(UpdateAccount, "alice", "bob") EXCEPT
      !.has_password = TRUE, !.password = NewPassword],
   [AdminRequest(UpdateAccount, "alice", "bob") EXCEPT
      !.has_enabled = TRUE, !.enabled = FALSE],
   [AdminRequest(UpdateAccount, "alice", "bob") EXCEPT
      !.has_password = TRUE, !.password = NewPassword,
      !.has_cp = TRUE, !.cp = -1],
   [AdminRequest(UpdateAccount, "alice", "bob") EXCEPT
      !.has_cp = TRUE, !.cp = 2,
      !.has_user_level = TRUE, !.user_level = 2000],
   [AdminRequest(UpdateAccount, "alice", "bob") EXCEPT
      !.has_password = TRUE, !.password = "short",
      !.has_cp = TRUE, !.cp = 2]}

UpdateRequests ==
  UNION {{[r EXCEPT !.has_challenge = a.has, !.challenge = a.val] :
            a \in CurrentAnswers("alice")} : r \in PlayerUpdates}
  \cup
  {[AdminRequest(GetCP, "bob", "") EXCEPT
      !.has_challenge = a.has, !.challenge = a.val] : a \in PlayerAnswers}

UpdateNext ==
  \/ \E t \in Threads : \E r \in UpdateRequests : Receive(t, r)
  \/ \E t \in Threads : AssignSession(t)
  \/ \E t \in Threads : AuthEntry(t)
  \/ \E t \in Threads : AuthVerify(t)
  \/ \E t \in Threads : AuthRotate(t)
  \/ \E t \in Threads : Authorize(t)
  \/ \E t \in Threads : AuthLevel(t)
  \/ \E t \in Threads : LockRequest(t)
  \/ \E t \in Threads : AccountGetCP(t)
  \/ \E t \in Threads : AdminUpdateAccount(t)
  \/ \E t \in Threads : AdminUpdateAccountApply(t)

SpecUpdate == InvalidateInit /\ [][UpdateNext]_vars

\* ------------------------------------- specification of kicking a player
\* Two administrators' authenticated requests to /admin/kick_player for the
\* target account, with no kick level, levels in and out of 1..3 and a level
\* beyond eight bits.
KickLevels == {0, 1, 3, 4, 257}
KickRequest(su, u, has, level) ==
  [method |-> KickPlayer, username |-> u, session_username |-> su,
   has_challenge |-> TRUE, challenge |-> NoAnswer, has_kick_level |-> has,
   kick_level |-> level]
KickRequests(su) ==
  {KickRequest(su, "carol", TRUE, k) : k \in KickLevels}
  \cup {KickRequest(su, "carol", FALSE, 0), KickRequest(su, "dave", FALSE, 0)}

KickInit ==
  /\ \E bl \in OperatorLevels : accounts = AdminAccounts(bl)
  /\ apiAdminLvl = [m \in AdminMethods |-> 1000]
  /\ postItems = [i \in 1..3 |-> 0]
  /\ hl = [t \in Threads |-> NoHandlerLocals]
  /\ promos = NoPromos
  /\ webGame = NoWebGame
  /\ enemy = NoEnemy
  /\ client = NoClient
  /\ mSessions = [k \in Keys |-> IF k = "alice" THEN 1
                                 ELSE IF k = "bob" THEN 2 ELSE 0]
  /\ requestLock = <<NoThread, NoThread>>
  /\ mSessionLock = NoThread
  /\ nextNonce = 5
  /\ crashed = FALSE
  /\ pc = [t \in Threads |-> "authorize"]
  /\ status = [t \in Threads |-> 0]
  /\ received = 2
  /\ hist = [t \in Threads |-> NoHist]
  /\ challenged = <<TRUE, TRUE>>
  /\ accepted = << {1}, {2} >>
  /\ sessions = << [username |-> "alice", account |-> 1, challenge |-> 3],
                   [username |-> "bob", account |-> 2, challenge |-> 4] >>
  /\ lcl = [t \in Threads |->
              IF t = "t1" THEN Authenticated(1, "pwA", 1)
              ELSE Authenticated(2, "pwB", 2)]
  /\ response = [t \in Threads |->
                   [EmptyResponse EXCEPT
                      !.challenge = IF t = "t1" THEN 3 ELSE 4]]
  /\ \E r1 \in KickRequests("alice") : \E r2 \in KickRequests("bob") :
       req = [t \in Threads |-> IF t = "t1" THEN r1 ELSE r2]

KickNext ==
  \/ \E t \in Threads : Authorize(t)
  \/ \E t \in Threads : AuthLevel(t)
  \/ \E t \in Threads : LockRequest(t)
  \/ \E t \in Threads : AdminKickPlayer(t)

SpecKick == KickInit /\ [][KickNext]_vars

\* ------------------------------------- specification of the web games
\* Requests to /webgame/start and /webgame/update with the session id of the
\* one web-game session or with another one; the session has no script
\* engine at first.
WebGameRequests ==
  {[method |-> m, username |-> "alice", sessionid |-> sid, type |-> ty,
    action |-> ac] :
     m \in WebGameMethods, sid \in {"sid1", "sidX"},
     ty \in {"slots", "chess", ""}, ac \in {"spin", "jump", ""}}

InitialGames ==
  {[gameSession |-> g, world |-> w, sessionid |-> "sid1", gameState |-> 0,
    made |-> 0, ran |-> 0] : g \in BOOLEAN, w \in BOOLEAN}

GameInit ==
  /\ accounts = InitialAccounts
  /\ apiAdminLvl = [m \in AdminMethods |-> 1000]
  /\ postItems = [i \in 1..Len(InitialAccounts) |-> 0]
  /\ hl = [t \in Threads |-> NoHandlerLocals]
  /\ promos = NoPromos
  /\ webGame \in InitialGames
  /\ enemy = NoEnemy
  /\ client = NoClient
  /\ mSessions = [k \in Keys |-> 0]
  /\ sessions = <<NewSession>>
  /\ requestLock = <<NoThread>>
  /\ mSessionLock = NoThread
  /\ nextNonce = 1
  /\ crashed = FALSE
  /\ pc = [t \in Threads |-> "idle"]
  /\ req = [t \in Threads |-> NoRequest]
  /\ lcl = [t \in Threads |-> NoLocals]
  /\ response = [t \in Threads |-> EmptyResponse]
  /\ status = [t \in Threads |-> 0]
  /\ received = 0
  /\ hist = [t \in Threads |-> NoHist]
  /\ accepted = <<{}>>
  /\ challenged = <<FALSE>>

GameNext ==
  \/ \E t \in Threads : \E r \in WebGameRequests : WebGameReceive(t, r)
  \/ \E t \in Threads : LockRequest(t)
  \/ \E t \in Threads : WebGame_Start(t)
  \/ \E t \in Threads : WebGame_StartMake(t)
  \/ \E t \in Threads : WebGame_Update(t)

SpecGame == GameInit /\ [][GameNext]_vars

\* ============================================================= properties
\* A command that handlePost lets through only after Authenticate.
Gated(t) == req[t].method # "" /\ ~IsBootstrap(req[t].method)

\* The request of thread t has been answered.
Answered(t) == pc[t] = "done" /\ SessionKey(req[t]) # ""

\* The request arrived at a session holding a challenge for a loaded account,
\* no other request of that session overlapped it, and its answer is the hash
\* of that account's password hash with that challenge.
AnsweredCorrectly(t) ==
  /\ hist[t].solo
  /\ hist[t].start.username # ""
  /\ hist[t].start.account # 0
  /\ req[t].has_challenge
  /\ req[t].challenge =
       HashPassword(accounts[hist[t].start.account].password,
                    hist[t].start.challenge)

\* The command is registered and the account may use it at handlePost's gate.
Entitled(t) ==
  /\ IsRegistered(req[t].method)
  /\ IsAdminMethod(req[t].method) =>
       AdminGate(accounts[hist[t].start.account].userLevel)

\* C1: after /auth/get_challenge issued challenge C to a session, a following
\* gated request answering HashPassword(stored password hash, C) is
\* authenticated (its reply challenge is the rotated one), and the handler of
\* a registered command the account is entitled to runs.
C1_CorrectAnswerAuthenticates ==
  \A t \in Threads :
    (Answered(t) /\ Gated(t) /\ AnsweredCorrectly(t)) =>
      /\ lcl[t].authenticated
      /\ response[t].challenge # 0
      /\ Entitled(t) => (lcl[t].ran /\ status[t] \in {200, 400})

C1_Witness ==
  \E t \in Threads :
    /\ Answered(t) /\ req[t].method = GetCP /\ AnsweredCorrectly(t)
    /\ accounts[hist[t].start.account].inDb
    /\ accounts[hist[t].start.account].enabled
    /\ status[t] = 200 /\ response[t].cp >= 0

\* (step) a gated request on a challenged session whose answer is missing
\* or wrong is answered 401 and leaves username, challenge and account of the
\* session cleared; (later requests) a gated request that arrives at a session
\* with no username is refused whatever it answers, unless a new challenge is
\* issued to the session meanwhile.
C2_WrongAnswerStep ==
  \A t \in Threads :
    (/\ At(t, "authVerify") /\ pc'[t] # "authVerify"
     /\ sessions[lcl[t].session].account # 0
     /\ (~req[t].has_challenge
         \/ req[t].challenge # ValidChallenge(lcl[t].session))) =>
      /\ sessions'[lcl[t].session] = NewSession
      /\ pc'[t] = "done" /\ status'[t] = 401 /\ ~lcl'[t].ran

C2_LaterRefused ==
  \A t \in Threads :
    (/\ Answered(t) /\ Gated(t)
     /\ hist[t].start.username = "" /\ ~hist[t].rechallenged) =>
      /\ status[t] = 401
      /\ ~lcl[t].ran /\ ~lcl[t].authenticated /\ response[t].challenge = 0

\* C2: a missing or wrong answer on a challenged session is rejected and
\* resets the session; every later gated request of the session is rejected
\* until a new challenge is requested.
C2_WrongAnswerResets == [][C2_WrongAnswerStep]_vars /\ []C2_LaterRefused

\* A request carrying the answer to the latest challenge of the account is
\* refused because an earlier wrong answer reset the session.
C2_Witness ==
  \E t \in Threads :
    /\ Answered(t) /\ req[t].method = GetCP /\ status[t] = 401
    /\ hist[t].start = NewSession /\ ~hist[t].rechallenged
    /\ nextNonce > 1
    /\ LoadAccountByUsername(SessionKey(req[t])) # 0
    /\ req[t].challenge =
         HashPassword(
           accounts[LoadAccountByUsername(SessionKey(req[t]))].password,
           nextNonce - 1)
    /\ accepted[lcl[t].session] = {}

\* C3: the handler of a gated command runs only in a request that has a
\* session username and whose own answer Authenticate compared equal to the
\* expected hash, and only on a session Auth_Token has stored a challenge on.
C3_HandlerOnlyAfterAuthenticate ==
  \A t \in Threads :
    /\ (lcl[t].ran /\ Gated(t)) =>
         /\ SessionKey(req[t]) # ""
         /\ lcl[t].authenticated
         /\ req[t].has_challenge
         /\ req[t].challenge = lcl[t].validChallenge
         /\ lcl[t].validChallenge[2] \in accepted[lcl[t].session]
         /\ challenged[lcl[t].session]
    /\ (req[t].method # "" /\ SessionKey(req[t]) = "") => ~lcl[t].ran

C3_Witness ==
  \E t \in Threads : pc[t] = "handler" /\ Gated(t) /\ lcl[t].authenticated

\* A successful authentication replaces the session's challenge by one never
\* issued before, and it is verified against a challenge no answer was
\* accepted against before.
C4_RotateStep ==
  \A t \in Threads :
    /\ (pc[t] = "authRotate" /\ pc'[t] # "authRotate") =>
         /\ sessions'[lcl[t].session].challenge # sessions[lcl[t].session].challenge
         /\ sessions'[lcl[t].session].challenge \notin 0..(nextNonce - 1)
         /\ response'[t].challenge = sessions'[lcl[t].session].challenge
    /\ (pc[t] = "authVerify" /\ pc'[t] = "authRotate") =>
         sessions[lcl[t].session].challenge \notin accepted[lcl[t].session]

\* C4: challenges are never reused on a session: every successful
\* authentication replaces the challenge with a fresh one, successive
\* successful authentications are verified against distinct challenges and an
\* answer accepted once is not accepted a second time.
C4_ChallengeNeverReused == [][C4_RotateStep]_vars

\* C5: no two requests of a session are both authenticated by an answer to
\* the same outstanding challenge.
C5_ChallengeAuthenticatesOnce ==
  \A t, u \in Threads :
    (/\ t # u
     /\ lcl[t].authenticated /\ lcl[u].authenticated
     /\ lcl[t].session = lcl[u].session) =>
      lcl[t].validChallenge # lcl[u].validChallenge

\* C6: a request whose authentication succeeded and rotated the challenge is
\* answered with the response body (status 200) that carries the new one.
C6_ReplyCarriesNewChallenge ==
  \A t \in Threads :
    (pc[t] = "done" /\ lcl[t].authenticated) =>
      (status[t] = 200 /\ response[t].challenge # 0)

\* Auth_Token's steps: (lookup) for an absent or disabled account it fails
\* (400), puts no challenge in the response, draws none and leaves the session
\* cleared, otherwise it stores the lowercased username and the account;
\* (store) it stores a challenge not issued before and returns it, with the
\* account's salt unless another request reset the session meanwhile.
C7_GetChallengeStep ==
  \A t \in Threads :
    LET s == lcl[t].session
        u == ToLower(req[t].username)
        present == \E i \in 1..Len(accounts) :
                     /\ accounts[i].inDb /\ accounts[i].username = u
                     /\ accounts[i].enabled
    IN /\ (At(t, "handler") /\ req[t].method = GetChallenge
           /\ pc'[t] # "handler") =>
            IF ~present
            THEN /\ pc'[t] = "done" /\ status'[t] = 400
                 /\ response'[t] = EmptyResponse
                 /\ nextNonce' = nextNonce
                 /\ sessions'[s] = NewSession
            ELSE /\ pc'[t] = "storeChallenge"
                 /\ sessions'[s].username = u /\ u \in Keys
                 /\ sessions'[s].account # 0
                 /\ accounts[sessions'[s].account].username = u
       /\ (At(t, "storeChallenge") /\ pc'[t] = "done") =>
            /\ status'[t] = 200
            /\ sessions'[s].challenge \notin 0..(nextNonce - 1)
            /\ response'[t].challenge = sessions'[s].challenge
            /\ sessions[s].account # 0 =>
                 /\ sessions'[s].username = u
                 /\ sessions'[s].account = sessions[s].account
                 /\ response'[t].salt = accounts[sessions[s].account].salt

InHandler(t) ==
  pc[t] \in {"handler", "storeChallenge", "postBuild", "postApply", "postRelay",
             "updateApply", "registerInsert", "promoDelete", "gameMake"}

\* C8: at most one handler body runs for a session at any time, and it runs
\* holding the session's requestLock.
C8_OneHandlerPerSession ==
  \A t \in Threads :
    InHandler(t) =>
      /\ requestLock[lcl[t].session] = t
      /\ \A u \in Threads \ {t} :
           InHandler(u) => lcl[u].session # lcl[t].session

\* A second request of the session waits while the first one's handler runs.
C8_Witness ==
  \E t, u \in Threads :
    /\ pc[t] = "handler" /\ pc[u] = "lockRequest"
    /\ lcl[u].session = lcl[t].session

\* C9: mSessionLock is held only between the lookup and the insert of a
\* session, never while its holder authenticates, waits for a requestLock or
\* runs a handler; a request waiting for a requestLock waits for a request of
\* the same username.
C9_RegistryLockScope ==
  /\ \A t \in Threads : mSessionLock = t => pc[t] = "assign"
  /\ \A t \in Threads :
       (pc[t] = "lockRequest" /\ ~RequestLockFree(lcl[t].session)) =>
         \E u \in Threads \ {t} :
           /\ requestLock[lcl[t].session] = u
           /\ SessionKey(req[u]) = SessionKey(req[t])

\* Handlers of two usernames run at the same time.
C9_Witness ==
  \E t, u \in Threads :
    /\ pc[t] = "handler" /\ pc[u] = "handler"
    /\ SessionKey(req[t]) # SessionKey(req[u])
    /\ mSessionLock = NoThread

\* C10: the registry holds exactly one Session object per username it has
\* seen (no object was ever replaced or dropped), and every request holds
\* the object registered under its username.
C10_OneSessionPerUsername ==
  /\ Len(sessions) = Cardinality({k \in Keys : mSessions[k] # 0})
  /\ \A k, j \in Keys :
       (mSessions[k] # 0 /\ mSessions[k] = mSessions[j]) => k = j
  /\ \A t \in Threads :
       lcl[t].session # 0 => lcl[t].session = mSessions[SessionKey(req[t])]

\* The first two requests, both for one username, overlap and share the
\* Session object.
C10_Witness ==
  \E t, u \in Threads :
    /\ t # u /\ received = 2
    /\ InFlight(t) /\ InFlight(u)
    /\ lcl[t].session = lcl[u].session
    /\ lcl[t].found = 0 /\ lcl[u].found # 0

\* ================================================== the economy commands
\* What the request of thread t made the target pay: its cost, once its
\* changeset is committed (it then answers "Success").
Paid(t) ==
  IF /\ req[t].method = PostItems
     /\ response[t].error = "Success" \/ pc[t] = "postRelay"
  THEN CpCost(req[t])
  ELSE 0

RECURSIVE SumPaid(_)
SumPaid(ts) ==
  IF ts = {} THEN 0
  ELSE LET t == CHOOSE x \in ts : TRUE IN Paid(t) + SumPaid(ts \ {t})

\* The requests of the run are all /admin/post_items.
OnlyPostItems == \A t \in Threads : req[t].method = PostItems

\* C11: parallel Admin_PostItems commands against one target account, from
\* the same or from different administrator sessions, lose no update: the
\* stored CP is the initial balance minus the costs of the commands that
\* answered "Success".
C11_NoLostUpdate ==
  OnlyPostItems => StoredCP(Target) = InitialCP - SumPaid(Threads)

\* Two purchases with a cost, from two sessions, were both processed: one
\* was paid, the other was refused by the changeset.
C11_Witness ==
  \E t, u \in Threads :
    /\ lcl[t].session # lcl[u].session
    /\ pc[t] = "done" /\ pc[u] = "done"
    /\ CpCost(req[t]) > 0 /\ CpCost(req[u]) > 0
    /\ response[t].error = "Success"
    /\ response[u].error = "Purchase failed."
    /\ StoredCP(Target) = InitialCP - CpCost(req[t])

\* The step applies a changeset of thread t whose explicit update of the CP
\* of account a expects the value that is stored.
GuardedWrite(t, a) ==
  /\ pc[t] = "postApply" /\ pc'[t] # pc[t]
  /\ hl[t].account = a
  /\ hl[t].expected = StoredCP(a)

\* C12: the stored CP of an account changes only through a changeset whose
\* explicit update carries the expected current value; no command writes
\* the balance directly.
C12_CPChangeStep ==
  \A a \in 1..Len(accounts) :
    accounts'[a].dbCP # accounts[a].dbCP
      => \E t \in Threads : GuardedWrite(t, a)
C12_OnlyGuardedWrites == [][C12_CPChangeStep]_vars

\* C13: the changeset of Admin_PostItems is all or nothing: when it is
\* refused (its expected CP is stale or a write fails) the command answers
\* "Purchase failed." and leaves the stored CP and the post items of the
\* account as they were; when it is applied, the cost is taken and every
\* product is delivered.
C13_ApplyStep ==
  \A t \in Threads :
    (pc[t] = "postApply" /\ pc'[t] # pc[t]) =>
      LET a == hl[t].account
          n == Len(req[t].products)
      IN \/ /\ pc'[t] = "done"
            /\ response'[t].error = "Purchase failed."
            /\ accounts' = accounts
            /\ postItems' = postItems
         \/ /\ pc'[t] = "postRelay"
            /\ hl[t].expected = StoredCP(a) \/ CpCost(req[t]) = 0
            /\ accounts'[a].dbCP = StoredCP(a) - CpCost(req[t])
            /\ postItems'[a] = postItems[a] + n
C13_AllOrNothing == [][C13_ApplyStep]_vars

\* A purchase with a cost was refused because the CP it expected had been
\* spent meanwhile: nothing of it is stored.
C13_Witness ==
  \E t \in Threads :
    /\ pc[t] = "done" /\ req[t].method = PostItems
    /\ response[t].error = "Purchase failed."
    /\ CpCost(req[t]) > 0
    /\ StoredCP(Target) < InitialCP
    /\ postItems[Target] = 1

\* C14: a purchase that costs more than the balance is refused, and after
\* any commands, concurrent ones included, the stored CP of every account is
\* not negative.
C14_CPNeverNegative == \A a \in 1..Len(accounts) : StoredCP(a) >= 0

\* ================================================ authorization by level
\* Thread t takes the step.
StepOf(t) == pc'[t] # pc[t]

\* The level configured for the admin command thread t asks for.
RequiredLevel(t) == apiAdminLvl[req[t].method]

\* The request of thread t is an admin command that has not entered its
\* handler body, and its session's level is below the configured minimum.
BelowMinimum(t) ==
  /\ pc[t] \in {"authLevel", "lockRequest", "handler"}
  /\ IsAdminMethod(req[t].method)
  /\ SessionLevel(lcl[t].session) < RequiredLevel(t)

\* C15: an admin command of a session whose level is below the command's
\* configured minimum performs no mutation at all: no account, post item or
\* session changes, and the handler body does not get past its level check.
C15_BelowMinimumStep ==
  \A t \in Threads :
    (BelowMinimum(t) /\ StepOf(t)) =>
      /\ accounts' = accounts
      /\ postItems' = postItems
      /\ sessions' = sessions
      /\ mSessions' = mSessions
      /\ pc'[t] \in {"done", "crashed", "lockRequest", "handler"}
C16_BelowMinimumStep ==
  \A t \in Threads :
    (/\ pc[t] = "authLevel" /\ StepOf(t)
     /\ sessions[lcl[t].session].account # 0
     /\ SessionLevel(lcl[t].session) < RequiredLevel(t))
      => pc'[t] = "lockRequest"
C16_LevelReply == [][C16_BelowMinimumStep]_vars

\* C17: each admin command is gated by its own configured minimum level and
\* by nothing else: the authenticated request goes on to the handler exactly
\* when the session's level reaches the minimum configured for the command.
C17_GateStep ==
  \A t \in Threads :
    (/\ pc[t] = "authLevel" /\ StepOf(t)
     /\ sessions[lcl[t].session].account # 0)
      => (pc'[t] = "lockRequest"
            <=> SessionLevel(lcl[t].session) >= RequiredLevel(t))
C17_GatedByOwnMinimum == [][C17_GateStep]_vars

\* ==================================== commands that invalidate a session
\* The request of thread t got a session that held no account or no
\* username, and no /auth/get_challenge has stored one on it since.
OnClearedSession(t) ==
  /\ Gated(t) /\ lcl[t].session # 0
  /\ hist[t].start.username = "" \/ hist[t].start.account = 0
  /\ ~hist[t].rechallenged

\* A request on a cleared session is refused with 401.
ClearedSessionRefuses ==
  \A t \in Threads :
    OnClearedSession(t) =>
      /\ ~lcl[t].authenticated
      /\ pc[t] \in {"authEntry", "done"}
      /\ pc[t] = "done" => status[t] = 401

\* The step is Admin_DeleteAccount of thread t deleting the account its own
\* session is registered for.
DeletesOwnAccount(t) ==
  /\ pc[t] = "handler" /\ StepOf(t)
  /\ req[t].method = DeleteAccount
  /\ sessions[lcl[t].session].username = ToLower(req[t].username)
  /\ \E a \in 1..Len(accounts) : accounts[a].inDb /\ ~accounts'[a].inDb

\* C18: when Admin_DeleteAccount deletes the account of the issuing
\* session's own username, the session loses its username and account, and
\* every gated request that then comes to the session is refused until
\* /auth/get_challenge has been requested for it.
C18_OwnDeleteStep ==
  \A t \in Threads :
    DeletesOwnAccount(t) =>
      /\ sessions'[lcl[t].session].username = ""
      /\ sessions'[lcl[t].session].account = 0
C18_OwnDeleteClearsSession == [][C18_OwnDeleteStep]_vars /\ []ClearedSessionRefuses

\* The administrator deleted the own account, and the next request of the
\* session, with a correct answer to its challenge, was refused.
C18_Witness ==
  \E t \in Threads :
    /\ pc[t] = "done" /\ status[t] = 401
    /\ req[t].method = GetCP /\ lcl[t].session = 1
    /\ ~accounts[1].inDb
    /\ hist[t].start.account = 0
    /\ req[t].challenge = HashPassword("pwA", sessions[1].challenge)

\* C19: after Admin_DeleteAccount deleted account U, whichever session
\* issued the command, no answer is accepted on U's session any more: an
\* answer is accepted only on a session whose account is in the database.
C19_AcceptStep ==
  \A t \in Threads :
    (pc[t] = "authVerify" /\ pc'[t] = "authRotate")
      => accounts[sessions[lcl[t].session].account].inDb
C19_DeletedAccountSessionInvalid == [][C19_AcceptStep]_vars

\* C20: after Account_ChangePassword stored a new password the session has
\* to authenticate again: an answer is accepted on it only once
\* /auth/get_challenge has stored a new challenge, and only when it is the
\* hash of the new password hash with that challenge.
C20_AcceptStep ==
  \A t \in Threads :
    LET s == lcl[t].session
        a == sessions[s].account
    IN (/\ pc[t] = "authVerify" /\ pc'[t] = "authRotate"
        /\ accounts[a].dbPassword = StoredHash(NewPassword, GenerateSalt))
         => /\ req[t].challenge =
                 HashPassword(accounts[a].dbPassword, sessions[s].challenge)
            /\ ~\E u \in Threads :
                  pc[u] = "storeChallenge" /\ lcl[u].session = s
C20_PasswordChangeReauthenticates ==
  [][C20_AcceptStep]_vars /\ []ClearedSessionRefuses

\* ==================================================== the relay to a world
\* Thread t ends Admin_PostItems with this step, after its changeset.
RelayStep(t) == pc[t] = "postRelay" /\ pc'[t] # pc[t]

\* C21: a purchase for an account that is logged into no world, or whose
\* world has no connection, is a normal outcome: no relay frame is sent, the
\* committed changeset stays and the command answers "Success" with 200.
C21_NotLiveStep ==
  \A t \in Threads :
    (RelayStep(t) /\ hl'[t].login # "connected") =>
      /\ ~hl'[t].sent
      /\ hl[t].committed
      /\ pc'[t] = "done" /\ status'[t] = 200
      /\ response'[t].error = "Success"
      /\ accounts' = accounts /\ postItems' = postItems
C21_NoLiveSessionIsNormal == [][C21_NotLiveStep]_vars

\* A paid purchase for an account that is in no world was answered.
C21_Witness ==
  \E t \in Threads :
    /\ pc[t] = "done" /\ req[t].method = PostItems
    /\ hl[t].login \in {"none", "noCharacter", "noWorld", "noConnection"}
    /\ ~hl[t].sent
    /\ response[t].error = "Success"
    /\ CpCost(req[t]) > 0
    /\ StoredCP(Target) = InitialCP - CpCost(req[t])
    /\ postItems[Target] = Len(req[t].products)

\* C22: the relay frame is sent only after the changeset was committed and
\* never for a refused one, and the relay step leaves what was committed:
\* the stored accounts and post items stay and the answer is "Success"
\* whether or not a frame went to a world.
C22_RelayStep ==
  \A t \in Threads :
    /\ (hl'[t].sent /\ pc'[t] # pc[t]) => (RelayStep(t) /\ hl[t].committed)
    /\ RelayStep(t) =>
         /\ accounts' = accounts /\ postItems' = postItems
         /\ pc'[t] = "done" /\ response'[t].error = "Success"
C22_RelayAfterCommit == [][C22_RelayStep]_vars

\* A committed purchase was relayed to the world the account is in.
C22_Witness ==
  \E t \in Threads :
    /\ pc[t] = "done" /\ req[t].method = PostItems
    /\ hl[t].login = "connected" /\ hl[t].sent
    /\ response[t].error = "Success"
    /\ CpCost(req[t]) > 0
    /\ \E u \in Threads :
         u # t /\ pc[u] = "done" /\ response[u].error = "Purchase failed."
                /\ ~hl[u].sent

\* ---------------------------------------------------------------------------
\* The status field of a reply
\* ---------------------------------------------------------------------------

\* C23: every body sent with status 200 carries the field "error" (the empty
\* string stands for a response object without that key).
C23_BodyHasStatusField ==
  \A t \in Threads :
    (pc[t] = "done" /\ status[t] = 200) => response[t].error # ""

\* ---------------------------------------------------------------------------
\* Unknown commands
\* ---------------------------------------------------------------------------

\* C24: a request that names an unknown command, served while no other
\* request of its session is in flight, is answered 404 and leaves its
\* session with the username, challenge and account the session held when
\* the request arrived.
C24_UnknownCommandMutatesNothing ==
  \A t \in Threads :
    (/\ pc[t] = "done"
     /\ req[t].method = Unknown
     /\ lcl[t].session # 0
     /\ hist[t].solo) =>
      /\ status[t] = 404
      /\ sessions[lcl[t].session] = hist[t].start

\* ---------------------------------------------------------------------------
\* Registration
\* ---------------------------------------------------------------------------

\* A step of Account_Register's check for a request of the right form.
WellFormedRegister(t) ==
  /\ pc[t] = "handler" /\ StepOf(t)
  /\ req[t].method = Register
  /\ UsernameMatches(ToLower(req[t].username))
  /\ GoodPassword(req[t].password)
  /\ EmailMatches(req[t].email)

C25_ExistingNameStep ==
  \A t \in Threads :
    (WellFormedRegister(t)
     /\ LoadAccountByUsername(ToLower(req[t].username)) # 0) =>
      /\ pc'[t] = "done" /\ status'[t] = 200
      /\ response'[t].error = "Account exists"
      /\ accounts' = accounts

C25_OneEach ==
  \A i, j \in 1..Len(accounts) :
    (/\ accounts[i].inDb /\ accounts[j].inDb
     /\ ToLower(accounts[i].username) = ToLower(accounts[j].username)) => i = j

\* C25: whatever /account/register requests are served, also two at a time
\* for one username, the database holds at most one account per lowercase
\* username, and a request of the right form for a username that exists is
\* answered "Account exists" and creates nothing.
C25_OneAccountPerUsername == [][C25_ExistingNameStep]_vars /\ []C25_OneEach

\* Two requests for one username in two spellings were served while both were
\* in flight: one created the account, the other found it.
C25_Witness ==
  /\ \A t \in Threads : pc[t] = "done" /\ req[t].method = Register
                        /\ ~hist[t].solo
  /\ {req[t].username : t \in Threads} = {"Alice", "alice"}
  /\ {response[t].error : t \in Threads} = {"Success", "Account exists"}
  /\ Len(accounts) = 2 /\ accounts[2].username = "alice" /\ accounts[2].inDb

\* ---------------------------------------------------------------------------
\* Deleting promos by code
\* ---------------------------------------------------------------------------

\* The promos in the database that carry the code.
WithCode(code) ==
  {i \in 1..Len(promos) : promos[i].inDb /\ promos[i].code = code}

\* Admin_DeletePromo has returned for t after loading its list, and no other
\* request has touched the promos.
DeletePromoDone(t) ==
  /\ pc[t] = "done" /\ req[t].method = DeletePromo
  /\ response[t].error \in {DeletedPromotions, "Failed to delete promo."}
  /\ \A u \in Threads \ {t} : hl[u].promoList = <<>>

\* C26: when Admin_DeletePromo has returned, either no promo with the code is
\* left and the count it reports is the number of promos that carried the
\* code, or it reports the failure and every promo that carried the code is
\* still there.
C26_DeletePromoAllOrNothing ==
  \A t \in Threads :
    DeletePromoDone(t) =>
      \/ /\ response[t].error = DeletedPromotions
         /\ WithCode(req[t].code) = {}
         /\ response[t].count = Len(hl[t].promoList)
      \/ /\ response[t].error = "Failed to delete promo."
         /\ \A i \in 1..Len(hl[t].promoList) : promos[hl[t].promoList[i]].inDb

\* ---------------------------------------------------------------------------
\* The coins of a web game
\* ---------------------------------------------------------------------------

\* max(0, current + coins) or max(0, coins), in the integers.
CoinTarget(w) ==
  LET v == IF w.adjust THEN w.amount + w.coinsArg ELSE w.coinsArg
  IN IF v < 0 THEN 0 ELSE v

\* A call of UpdateCoins returns: with true, the game session's coins are
\* the target and the stored coins were set to it from the amount read
\* (nothing is written when they are equal); with false, neither changed.
C27_ReturnStep ==
  (webGame.at # "returned" /\ webGame'.at = "returned") =>
    IF webGame'.result
    THEN /\ webGame.at = "write"
         /\ webGame'.coins = CoinTarget(webGame)
         /\ webGame'.stored = IF webGame.amount = CoinTarget(webGame)
                              THEN webGame.stored ELSE CoinTarget(webGame)
         /\ webGame.amount # CoinTarget(webGame) =>
              webGame.stored = webGame.amount
    ELSE /\ webGame'.stored = webGame.stored
         /\ webGame'.coins = webGame.coins

C27_StoredNotNegative == webGame.gameSession => webGame.stored >= 0

\* C27: UpdateCoins sets the stored coins to max(0, current + coins) (adjust)
\* or max(0, coins) through a write guarded by the amount it read, returns
\* true and sets the game session's coins only when that write succeeded or
\* the amount was the target already, returns false with both unchanged
\* otherwise, and the stored coins are never negative.
C27_UpdateCoins == [][C27_ReturnStep]_vars /\ []C27_StoredNotNegative

\* ---------------------------------------------------------------------------
\* What an invalidating command leaves on the session
\* ---------------------------------------------------------------------------

\* The step is the handler of thread t detaching the account of its session.
DetachesOwnAccount(t) ==
  /\ StepOf(t) /\ InHandler(t)
  /\ req[t].method \in {ChangePassword, UpdateAccount, DeleteAccount}
  /\ sessions[lcl[t].session].account # 0
  /\ sessions'[lcl[t].session].account = 0

\* C28: a command that invalidates the session's own account
\* (Account_ChangePassword, Admin_UpdateAccount or Admin_DeleteAccount on the
\* session's username) leaves the session without an outstanding challenge as
\* well as without its account.
C28_InvalidateStep ==
  \A t \in Threads :
    DetachesOwnAccount(t) => sessions'[lcl[t].session].challenge = 0
C28_InvalidationClearsChallenge == [][C28_InvalidateStep]_vars

\* ---------------------------------------------------------------------------
\* Updates of an account by an administrator
\* ---------------------------------------------------------------------------

\* C29: once Admin_UpdateAccount, sent on another session, has changed the
\* password of account U or disabled U, no answer made from the old password
\* hash is accepted on U's session, nor any answer while U is disabled: an
\* answer is accepted only for an enabled account and only when it is made
\* from the password hash the account holds.
C29_AcceptStep ==
  \A t \in Threads :
    (pc[t] = "authVerify" /\ pc'[t] = "authRotate") =>
      LET a == sessions[lcl[t].session].account
      IN /\ accounts[a].enabled
         /\ req[t].challenge[1] = accounts[a].password
C29_UpdateInvalidatesOldAnswers == [][C29_AcceptStep]_vars

\* The step is Admin_UpdateAccount of thread t stopping at a refused field.
RefusesUpdate(t) ==
  /\ pc[t] = "updateApply" /\ StepOf(t)
  /\ UpdateRefusal(req[t]) # ""

\* C30: when Admin_UpdateAccount refuses a field of the request it reports
\* the error, leaves every field of the account as it was (the fields of the
\* request before the refused one included) and does not clear the session
\* that sent it.
C30_RefusedStep ==
  \A t \in Threads :
    RefusesUpdate(t) =>
      /\ response'[t].error = UpdateRefusal(req[t])
      /\ accounts' = accounts
      /\ sessions' = sessions
C30_UpdateAllOrNothing == [][C30_RefusedStep]_vars

\* ---------------------------------------------------------------------------
\* Kicking a player
\* ---------------------------------------------------------------------------

\* The kick level the request asks for (1 when it names none).
RequestedKickLevel(r) == IF r.has_kick_level THEN r.kick_level ELSE 1

\* Admin_KickPlayer has looked up the login of the target for thread t.
KickDone(t) ==
  pc[t] = "done" /\ req[t].method = KickPlayer /\ hl[t].login # ""

\* C31: Admin_KickPlayer sends a frame only for a target logged into a world
\* that has a connection and for a kick level of 1, 2 or 3; for a target not
\* logged in or a kick level outside 1..3 it reports an error, sends no frame
\* and closes no connection; for a target in the lobby it closes the lobby
\* connection and sends no frame.
C31_KickOnlyWhenLive ==
  \A t \in Threads :
    KickDone(t) =>
      /\ hl[t].sent =>
           (hl[t].login = "world" /\ RequestedKickLevel(req[t]) \in 1..3)
      /\ (hl[t].login = "notLoggedIn"
          \/ RequestedKickLevel(req[t]) \notin 1..3) =>
           (/\ response[t].error \notin {"", "Success"}
            /\ ~hl[t].sent /\ ~hl[t].closed)
      /\ hl[t].login = "lobby" => (hl[t].closed /\ ~hl[t].sent)

\* ---------------------------------------------------------------------------
\* The script engine of a web game
\* ---------------------------------------------------------------------------

\* The step is the handler body of thread t for command m.
HandlerStep(t, m) ==
  pc[t] = "handler" /\ StepOf(t) /\ req[t].method = m

\* C32: a web-game session has at most one script engine and only
\* /webgame/start makes one, for a session that has none: /webgame/update on
\* a session without one answers "Game not started" and runs no function of
\* the program, /webgame/start on a session with one answers "Game has
\* already been started" and leaves it as it is.
C32_EngineStep ==
  /\ webGame'.gameState # webGame.gameState =>
       (/\ webGame.gameState = 0
        /\ \E t \in Threads :
             /\ pc[t] = "gameMake" /\ StepOf(t)
             /\ req[t].method = WebGameStart)
  /\ \A t \in Threads :
       (HandlerStep(t, WebGameUpdate) /\ WebGameSessionError = ""
        /\ webGame.gameState = 0) =>
         (/\ response'[t].error = "Game not started"
          /\ webGame' = webGame)
  /\ \A t \in Threads :
       (HandlerStep(t, WebGameStart) /\ WebGameSessionError = ""
        /\ webGame.gameState # 0) =>
         (/\ response'[t].error = "Game has already been started"
          /\ webGame' = webGame)
C32_OneEngineMadeByStart == [][C32_EngineStep]_vars

\* A start made the engine, a second start was refused and left it, and no
\* other engine was made.
C32_Witness ==
  /\ webGame.gameState = 1 /\ webGame.made = 1
  /\ \E t \in Threads :
       /\ pc[t] = "done" /\ req[t].method = WebGameStart
       /\ response[t].error = "Game has already been started"

\* The errors of a /webgame/start that did not start the game.
StartFailures ==
  {"Game could not be started",
   "Character information could not be retrieved",
   "Unknown error encountered while starting game"}

\* C37: a /webgame/start that fails (the program does not evaluate, the
\* character or its progress is not loaded, the start function fails) leaves
\* the session without a script engine, so that a following /webgame/update
\* answers "Game not started" and a following /webgame/start is tried again.
C37_FailedStartStep ==
  \A t \in Threads :
    (/\ pc[t] = "gameMake" /\ StepOf(t)
     /\ response'[t].error \in StartFailures) =>
       webGame'.gameState = 0

C37_FailedStartLeavesNoEngine == [][C37_FailedStartStep]_vars

\* ---------------------------------------------------------------------------
\* EnemyState: the negotiation points of an enemy per player entity
\* (src/server/channel/src/EnemyState.cpp).
\* ---------------------------------------------------------------------------

\* The entity IDs of the player characters talking to the enemy, the
\* affability and fear values they set, and the points of line 70.
Entities == {1, 2}
TalkValues == {0, 5}
NoPoints == <<0, 0>>
TalkPoints == {<<a, f>> : a \in TalkValues, f \in TalkValues}

\* A call of GetTalkPoints or SetTalkPoints by a thread: its arguments, the
\* iterator test of line 68 (found), and what it hands back (exists and the
\* returned pair; returned says the call is over).
NoCall ==
  [op |-> "", entityID |-> 0, points |-> NoPoints, found |-> FALSE,
   exists |-> FALSE, result |-> NoPoints, returned |-> FALSE]

\* mTalkPoints as a function of the keys it holds.
NoTalkPoints == [e \in {} |-> NoPoints]
HasKey(m, e) == e \in DOMAIN m
Assign(m, e, p) == [k \in DOMAIN m \cup {e} |-> IF k = e THEN p ELSE m[k]]

\* The pair GetTalkPoints puts under a key it did not find (lines 69-72).
KeptAfterMiss(m, e) == Assign(m, e, NoPoints)

\* std::lock_guard<std::mutex> lock(mLock), lines 67 and 79.
TalkLockFree == enemy.mLock = NoThread

\* The handler state that the enemy's calls leave alone.
besidesEnemy ==
  <<accounts, apiAdminLvl, mSessions, sessions, requestLock, mSessionLock,
    nextNonce, crashed, req, lcl, response, status, hist, accepted,
    challenged, postItems, hl, promos, webGame, client>>

\* A thread calls GetTalkPoints(entityID, exists): line 65 sets exists.
GetTalkPointsCall(t, e) ==
  /\ pc[t] \in {"idle", "done"}
  /\ received < MaxRequests
  /\ received' = received + 1
  /\ enemy' = [enemy EXCEPT
                 !.call[t] = [NoCall EXCEPT !.op = "get", !.entityID = e,
                                            !.exists = TRUE]]
  /\ pc' = [pc EXCEPT ![t] = "talkLock"]
  /\ UNCHANGED besidesEnemy

\* A thread calls SetTalkPoints(entityID, points).
SetTalkPointsCall(t, e, p) ==
  /\ pc[t] \in {"idle", "done"}
  /\ received < MaxRequests
  /\ received' = received + 1
  /\ enemy' = [enemy EXCEPT
                 !.call[t] = [NoCall EXCEPT !.op = "set", !.entityID = e,
                                            !.points = p]]
  /\ pc' = [pc EXCEPT ![t] = "talkLock"]
  /\ UNCHANGED besidesEnemy

\* Lines 67 and 79: the call takes mLock.
TalkLock(t) ==
  /\ pc[t] = "talkLock"
  /\ TalkLockFree
  /\ enemy' = [enemy EXCEPT !.mLock = t]
  /\ pc' = [pc EXCEPT ![t] = IF enemy.call[t].op = "get" THEN "talkFind"
                             ELSE "talkSet"]
  /\ UNCHANGED received
  /\ UNCHANGED besidesEnemy

\* Line 68: auto it = mTalkPoints.find(entityID).
GetTalkPointsFind(t) ==
  /\ pc[t] = "talkFind"
  /\ enemy' = [enemy EXCEPT
                 !.call[t].found = HasKey(enemy.mTalkPoints,
                                          enemy.call[t].entityID)]
  /\ pc' = [pc EXCEPT ![t] = "talkReturn"]
  /\ UNCHANGED received
  /\ UNCHANGED besidesEnemy

\* Lines 69-74: a key that was not found gets (0, 0) and exists = false;
\* mTalkPoints[entityID] is returned and the lock released.
GetTalkPointsReturn(t) ==
  /\ pc[t] = "talkReturn"
  /\ LET c == enemy.call[t]
         m == IF c.found THEN enemy.mTalkPoints
              ELSE KeptAfterMiss(enemy.mTalkPoints, c.entityID)
         \* operator[] of line 74 inserts a pair of zeros for a missing key
         after == IF HasKey(m, c.entityID) THEN m
                  ELSE Assign(m, c.entityID, NoPoints)
     IN enemy' = [enemy EXCEPT
                    !.mTalkPoints = after,
                    !.mLock = IF @ = t THEN NoThread ELSE @,
                    !.call[t] = [c EXCEPT !.exists = c.found,
                                          !.result = after[c.entityID],
                                          !.returned = TRUE]]
  /\ pc' = [pc EXCEPT ![t] = "done"]
  /\ UNCHANGED received
  /\ UNCHANGED besidesEnemy

\* Lines 79-81: mTalkPoints[entityID] = points, then the lock is released.
\* set keeps the points last associated with each entity by SetTalkPoints.
SetTalkPointsStore(t) ==
  /\ pc[t] = "talkSet"
  /\ LET c == enemy.call[t]
     IN enemy' = [enemy EXCEPT
                    !.mTalkPoints = Assign(@, c.entityID, c.points),
                    !.set = Assign(@, c.entityID, c.points),
                    !.mLock = IF @ = t THEN NoThread ELSE @,
                    !.call[t].returned = TRUE]
  /\ pc' = [pc EXCEPT ![t] = "done"]
  /\ UNCHANGED received
  /\ UNCHANGED besidesEnemy

\* A spawned enemy nobody has talked to.
TalkInit ==
  /\ accounts = InitialAccounts
  /\ apiAdminLvl = [m \in AdminMethods |-> 1000]
  /\ postItems = [i \in 1..Len(InitialAccounts) |-> 0]
  /\ hl = [t \in Threads |-> NoHandlerLocals]
  /\ promos = NoPromos
  /\ webGame = NoWebGame
  /\ enemy = [spawned |-> TRUE, mTalkPoints |-> NoTalkPoints,
              set |-> NoTalkPoints, mLock |-> NoThread,
              call |-> [t \in Threads |-> NoCall]]
  /\ client = NoClient
  /\ mSessions = [k \in Keys |-> 0]
  /\ sessions = <<>>
  /\ requestLock = <<>>
  /\ mSessionLock = NoThread
  /\ nextNonce = 1
  /\ crashed = FALSE
  /\ pc = [t \in Threads |-> "idle"]
  /\ req = [t \in Threads |-> NoRequest]
  /\ lcl = [t \in Threads |-> NoLocals]
  /\ response = [t \in Threads |-> EmptyResponse]
  /\ status = [t \in Threads |-> 0]
  /\ received = 0
  /\ hist = [t \in Threads |-> NoHist]
  /\ accepted = <<>>
  /\ challenged = <<>>

TalkNext ==
  \/ \E t \in Threads : \E e \in Entities :
       GetTalkPointsCall(t, e)
  \/ \E t \in Threads : \E e \in Entities : \E p \in TalkPoints :
       SetTalkPointsCall(t, e, p)
  \/ \E t \in Threads : TalkLock(t)
  \/ \E t \in Threads : GetTalkPointsFind(t)
  \/ \E t \in Threads : GetTalkPointsReturn(t)
  \/ \E t \in Threads : SetTalkPointsStore(t)

SpecTalk == TalkInit /\ [][TalkNext]_vars

\* GetTalkPoints of thread t returns in this step.
GetReturns(t) == pc[t] = "talkReturn" /\ pc'[t] = "done"

\* C33: GetTalkPoints reports exists = true exactly when SetTalkPoints has
\* associated points with the entity ID, and then returns the points last
\* set; otherwise it reports exists = false with (0, 0), however many times
\* GetTalkPoints was called before.  Calls on one enemy exclude each other.
C33_GetStep ==
  \A t \in Threads :
    GetReturns(t) =>
      LET e == enemy.call[t].entityID
          c == enemy'.call[t]
      IN IF HasKey(enemy.set, e)
         THEN c.exists /\ c.result = enemy.set[e]
         ELSE ~c.exists /\ c.result = NoPoints

C33_OneCallAtATime ==
  \A t, u \in Threads :
    (t # u /\ pc[t] \in {"talkFind", "talkReturn", "talkSet"}) =>
      pc[u] \notin {"talkFind", "talkReturn", "talkSet"}

C33_ExistsIffSet == [][C33_GetStep]_vars /\ []C33_OneCallAtATime

\* ---------------------------------------------------------------------------
\* Parsers::Sync::Parse: the clock of a channel client
\* (src/server/channel/src/packets/game/Sync.cpp).
\* ---------------------------------------------------------------------------

\* The Sync packets one client sends, the readings of the server's clock and
\* the times a client reports.
MaxSyncs == 5
MaxServerTime == 6
ClientTimes == 0..3

\* ServerTime is unsigned: differences wrap (scaled from 2^64).  A float
\* keeps the leading digits of a number only (scaled from 24 bits to 3).
TimeModulus == 16
FloatMantissa == 8

\* Line 70: (ServerTime)timeFromClient * 1000 (scaled to 2).
ClientTicks == 2
ToServerTime(timeFromClient) == timeFromClient * ClientTicks

\* Lines 78-79: the difference of two unsigned times.
TimeDelta(now, last) == (now - last + TimeModulus) % TimeModulus

\* Lines 81-82: (float) of an unsigned time below 2 * FloatMantissa, rounded
\* to the nearest number a float holds, to the even one of two.
ToFloat(v) ==
  IF v < FloatMantissa THEN v
  ELSE LET lo == (v \div 2) * 2
       IN IF v = lo THEN v
          ELSE IF (lo \div 2) % 2 = 0 THEN lo ELSE lo + 2

\* Line 86: threshold = GetClockSkewThreshold() * serverDeltaF.
SkewThreshold(cfg, serverDelta) ==
  LET product == cfg.ClockSkewThreshold * ToFloat(serverDelta)
  IN IF product > 0 THEN ToFloat(product) ELSE product

\* Lines 83 and 87: skew = delta = clientDeltaF.
Skew(clientDelta) == ToFloat(clientDelta)

\* Line 89: "if (threshold > 0.0f && skew >= threshold)".
SkewViolation(cfg, serverDelta, clientDelta) ==
  /\ SkewThreshold(cfg, serverDelta) > 0
  /\ Skew(clientDelta) >= SkewThreshold(cfg, serverDelta)

\* Line 93: "if (skewCount >= worldSharedConfig->GetClockSkewCount())".
OverLimit_Above(cfg, skewCount) == skewCount > cfg.ClockSkewCount
OverLimit(cfg, skewCount) == skewCount >= cfg.ClockSkewCount

\* Line 104: "if (worldSharedConfig->GetAutobanClockSkew())".
Autoban_Always(cfg) == TRUE
Autoban(cfg) == cfg.AutobanClockSkew

\* Lines 105-108: the account is disabled with its reason and initiator.
BanReason == "Account is running the client too fast (possible cheating)."
Banned(account) ==
  [account EXCEPT !.enabled = FALSE, !.banReason = BanReason,
                  !.banInitiator = "<channel server>"]

\* Parsers::Sync::Parse, lines 47-137, for a packet carrying timeFromClient
\* that is handled when the server's clock reads currentServerTime.  The
\* reply of line 68 is sent first; account->Update (line 109) writes the
\* record to the lobby database or fails.
Sync(timeFromClient, currentServerTime) ==
  /\ client.connected
  /\ client.syncs < MaxSyncs
  /\ currentServerTime >= client.now
  /\ LET cfg == client.cfg
         lastServerTime == client.lastServerTimestamp
         lastClientTime == client.lastClientTimestamp
         currentClientTimeInServerTime == ToServerTime(timeFromClient)
         serverDelta == TimeDelta(currentServerTime, lastServerTime)
         clientDelta == TimeDelta(currentClientTimeInServerTime, lastClientTime)
         skewCount == client.clockSkewCount
         base == [client EXCEPT
                    !.syncs = @ + 1,
                    !.now = currentServerTime,
                    !.replies = @ + 1,
                    !.lastServerTimestamp = currentServerTime,
                    !.lastClientTimestamp = currentClientTimeInServerTime]
     IN IF lastServerTime # 0 /\ SkewViolation(cfg, serverDelta, clientDelta)
        THEN IF OverLimit(cfg, skewCount)
             THEN IF Autoban(cfg)
                  THEN \E written \in BOOLEAN :
                         client' =
                           [base EXCEPT
                              !.account = Banned(@),
                              !.lobby = IF written THEN Banned(client.account)
                                        ELSE @,
                              !.closes = @ + 1]
                  ELSE client' = [base EXCEPT !.closes = @ + 1]
             ELSE client' = [base EXCEPT !.clockSkewCount = skewCount + 1]
        ELSE client' = base
  /\ UNCHANGED <<accounts, apiAdminLvl, mSessions, sessions, requestLock,
                 mSessionLock, nextNonce, crashed, pc, req, lcl, response,
                 status, received, hist, accepted, challenged, postItems, hl,
                 promos, webGame, enemy>>

\* The world's shared configuration: the skew threshold (a factor of the
\* server's elapsed time), the number of strikes, the automatic ban.
SyncConfigs ==
  {[ClockSkewThreshold |-> th, ClockSkewCount |-> n, AutobanClockSkew |-> b] :
     th \in {-1, 0, 1, 2}, n \in {0, 1, 2}, b \in BOOLEAN}

\* The account of the client as logged in: enabled, never banned.
LoggedInAccount == [enabled |-> TRUE, banReason |-> "", banInitiator |-> ""]

\* A client that has just connected to the channel.
SyncInit ==
  /\ accounts = InitialAccounts
  /\ apiAdminLvl = [m \in AdminMethods |-> 1000]
  /\ postItems = [i \in 1..Len(InitialAccounts) |-> 0]
  /\ hl = [t \in Threads |-> NoHandlerLocals]
  /\ promos = NoPromos
  /\ webGame = NoWebGame
  /\ enemy = NoEnemy
  /\ \E cfg \in SyncConfigs :
       client = [connected |-> TRUE, cfg |-> cfg, syncs |-> 0, now |-> 1,
                 replies |-> 0, lastServerTimestamp |-> 0,
                 lastClientTimestamp |-> 0, clockSkewCount |-> 0,
                 closes |-> 0, account |-> LoggedInAccount,
                 lobby |-> LoggedInAccount]
  /\ mSessions = [k \in Keys |-> 0]
  /\ sessions = <<>>
  /\ requestLock = <<>>
  /\ mSessionLock = NoThread
  /\ nextNonce = 1
  /\ crashed = FALSE
  /\ pc = [t \in Threads |-> "idle"]
  /\ req = [t \in Threads |-> NoRequest]
  /\ lcl = [t \in Threads |-> NoLocals]
  /\ response = [t \in Threads |-> EmptyResponse]
  /\ status = [t \in Threads |-> 0]
  /\ received = 0
  /\ hist = [t \in Threads |-> NoHist]
  /\ accepted = <<>>
  /\ challenged = <<>>

SyncNext ==
  \E timeFromClient \in ClientTimes : \E now \in 1..MaxServerTime :
    Sync(timeFromClient, now)

SpecSync == SyncInit /\ [][SyncNext]_vars

\* The step handles a Sync packet; it is the first of the client; it is one
\* the code counts as a skew violation.
SyncStep == client'.syncs = client.syncs + 1
FirstSync == client.lastServerTimestamp = 0
ViolatingSync ==
  SkewViolation(client.cfg,
                TimeDelta(client'.lastServerTimestamp,
                          client.lastServerTimestamp),
                TimeDelta(client'.lastClientTimestamp,
                          client.lastClientTimestamp))

\* C39: the skew counter of a client is left alone by its first Sync, grows
\* by exactly one on each later Sync that is a skew violation while it is
\* below ClockSkewCount, never decreases and never exceeds ClockSkewCount;
\* the connection is closed exactly on a later violating Sync that finds the
\* counter at or above ClockSkewCount, so never when the threshold is not
\* positive or the Sync is no violation.
C39_SyncStep ==
  SyncStep =>
    LET count == client.clockSkewCount
        limit == client.cfg.ClockSkewCount
        strike == ~FirstSync /\ ViolatingSync
    IN /\ FirstSync => client'.clockSkewCount = count
       /\ (strike /\ count < limit) => client'.clockSkewCount = count + 1
       /\ client'.clockSkewCount >= count
       /\ client'.closes # client.closes <=> (strike /\ count >= limit)
       /\ client'.closes \in {client.closes, client.closes + 1}

C39_CountWithinLimit ==
  client.connected => client.clockSkewCount <= client.cfg.ClockSkewCount

C39_ClockSkewStrikes == [][C39_SyncStep]_vars /\ []C39_CountWithinLimit

\* A client that used up its two strikes and was then closed.
C39_Witness ==
  /\ client.connected
  /\ client.cfg.ClockSkewCount = 2
  /\ client.clockSkewCount = 2
  /\ client.closes = 1

\* C40: a Sync disables an account (enabled = false with the ban reason and
\* initiator, the record written to the lobby database) only when
\* AutobanClockSkew is configured and only in the step in which it closes
\* the connection of that client for exceeding the strike limit; with
\* AutobanClockSkew off no Sync changes an account record.
C40_SyncStep ==
  (client'.account # client.account \/ client'.lobby # client.lobby) =>
    /\ client.cfg.AutobanClockSkew
    /\ client'.closes = client.closes + 1
    /\ ~FirstSync /\ ViolatingSync
    /\ client.clockSkewCount >= client.cfg.ClockSkewCount
    /\ client'.account = Banned(client.account)
    /\ client'.lobby \in {client.lobby, Banned(client.account)}

C40_BanOnlyWithAutoban == [][C40_SyncStep]_vars

\* An account banned by a Sync, the ban written to the lobby database.
C40_Witness ==
  /\ client.connected
  /\ client.cfg.AutobanClockSkew
  /\ client.closes = 1
  /\ ~client.account.enabled
  /\ ~client.lobby.enabled
  /\ client.lobby.banInitiator = "<channel server>"

\* C34: for every entry (K, S) of the session map the username of S is
\* empty or K, and the account S holds is the one named K: an authenticated
\* command loads and acts on the account under whose username its session
\* was looked up.
C34_SessionKeyedByUsername ==
  \A k \in Keys :
    mSessions[k] # 0 =>
      LET S == sessions[mSessions[k]]
      IN /\ S.username \in {"", k}
         /\ S.account # 0 => accounts[S.account].username = k

\* A session made for a request that spelled the name "Alice" holds "alice".
C34_Witness ==
  /\ mSessions["alice"] # 0
  /\ sessions[mSessions["alice"]].username = "alice"
  /\ sessions[mSessions["alice"]].account # 0
  /\ \E t \in Threads :
       /\ pc[t] = "done"
       /\ req[t].method = GetChallenge
       /\ req[t].username = "Alice"

\* Thread t enters the handler body of its command in this step (line 2091
\* is passed).
EntersHandler(t) == pc[t] = "lockRequest" /\ pc'[t] = "handler"

\* C35: whenever the handler body of a gated command starts to execute, the
\* session it was authenticated on is still authenticated (its username is
\* not empty and its account is loaded), under every interleaving with the
\* other requests of the same session.
C35_EnterStep ==
  \A t \in Threads :
    (EntersHandler(t) /\ Gated(t)) =>
      /\ sessions'[lcl[t].session].username # ""
      /\ sessions'[lcl[t].session].account # 0

C35_HandlerStartsAuthenticated == [][C35_EnterStep]_vars

\* C36: whatever /account/register requests are served, also two at a time
\* for different usernames with one email address, no two accounts of the
\* database share an email address.
C36_OneAccountPerEmail ==
  \A i, j \in 1..Len(accounts) :
    (/\ accounts[i].inDb /\ accounts[j].inDb
     /\ accounts[i].email = accounts[j].email) => i = j

\* C38: whatever /admin/post_items commands are served, also two at a time
\* from different administrator sessions for one target account, the
\* number of post items stored for an account stays below
\* MAX_POST_ITEM_COUNT, and a command that would bring it to
\* MAX_POST_ITEM_COUNT or more is refused and inserts nothing.
C38_BelowMaximum ==
  \A a \in 1..Len(postItems) : postItems[a] < MAX_POST_ITEM_COUNT

C38_InsertStep ==
  \A a \in 1..Len(postItems) :
    postItems'[a] # postItems[a] => postItems'[a] < MAX_POST_ITEM_COUNT

C38_PostItemCountBounded == [][C38_InsertStep]_vars /\ []C38_BelowMaximum

====
